---- MODULE Spec2Model ----
(***************************************************************************)
(* Model of coderd's workspace-agent liveness handling                      *)
(* (coderd/workspaceagents.go) and of the DAU metrics cache                 *)
(* (coderd/metricscache, coderd/metrics.go).                                *)
(*                                                                         *)
(* Three specifications share the variables below:                         *)
(*   Spec        the agent listener (workspaceAgentListen) with its row    *)
(*               store, clock and builds;                                  *)
(*   SpecConvert convertWorkspaceAgent and the handlers that gate on the   *)
(*               derived status, over all timestamp combinations;          *)
(*   SpecFill    fillEmptyDAUDays / FillEmptyDAUDays over bounded rows.    *)
(***************************************************************************)
EXTENDS Integers, Sequences, FiniteSets, TLC

VARIABLES
    now,          \* database.Now(): the wall clock
    latestBuild,  \* ID of the latest build of the agent's workspace
    agentRow,     \* the workspace_agents row in the row store
    hs,           \* the workspaceAgentListen handlers (one record each)
    fenced,       \* history: a tick found the agent's build outdated
    in,           \* inputs of the pure-function specifications
    out,          \* their results
    cache,        \* the metrics cache: its loop, snapshot and shutdown state
    st,           \* the agent's connection statistics and their users
    rep,          \* a stats report transport: the server loop and the agent
    dc,           \* an agent dial: the signaling relay, the peer, a channel
    pty,          \* a terminal request: its handler and the two copy loops
    bus,          \* the node updates on the publish/subscribe bus
    wg            \* the API's websocketWaitGroup, its mutex, its handlers

vars ==
    <<now, latestBuild, agentRow, hs, fenced, in, out, cache, st, rep, dc, pty,
      bus, wg>>

----------------------------------------------------------------------------
(* Bounds *)

MaxTime == 3        \* number of distinct real clock instants
MaxDuration == 4    \* scaled stand-in for the largest time.Duration
MaxBuild == 2       \* builds of the workspace

----------------------------------------------------------------------------
(* time.Time, time.Duration and sql.NullTime *)

\* The zero time.Time (year 1), held by an invalid sql.NullTime.
ZeroTime == 0

\* Real clock readings lie further from the zero time than any Duration
\* can express (year 2022 against a range of about 292 years).
Epoch == MaxDuration + 2

Times == (Epoch + 1)..(Epoch + MaxTime)

Durations == 0..MaxDuration

\* time.Time.Sub: the difference, saturated to the Duration range.
Sub(t, u) ==
    IF t - u > MaxDuration THEN MaxDuration
    ELSE IF t - u < -MaxDuration THEN -MaxDuration
    ELSE t - u

\* time.Time.After
After(t, u) == t > u

NullTime(t) == [Valid |-> TRUE, Time |-> t]

Null == [Valid |-> FALSE, Time |-> ZeroTime]

NullTimes == {Null} \cup {NullTime(t) : t \in Times}

AgentRows == [FirstConnectedAt : NullTimes,
              LastConnectedAt : NullTimes,
              DisconnectedAt : NullTimes]

----------------------------------------------------------------------------
(* codersdk.WorkspaceAgentStatus *)

WorkspaceAgentConnecting == "connecting"
WorkspaceAgentConnected == "connected"
WorkspaceAgentDisconnected == "disconnected"
StatusUnset == ""

convertWorkspaceAgentNotStrict(dbAgent, t, agentInactiveDisconnectTimeout) ==
    IF ~dbAgent.FirstConnectedAt.Valid
        THEN WorkspaceAgentConnecting
    ELSE IF dbAgent.DisconnectedAt.Time >= dbAgent.LastConnectedAt.Time
        THEN WorkspaceAgentDisconnected
    ELSE IF Sub(t, dbAgent.LastConnectedAt.Time) > agentInactiveDisconnectTimeout
        THEN WorkspaceAgentDisconnected
    ELSE IF dbAgent.LastConnectedAt.Valid
        THEN WorkspaceAgentConnected
    ELSE StatusUnset

\* The status switch of convertWorkspaceAgent, evaluated at clock reading t.
\* A switch without default leaves Status at its zero value.
convertWorkspaceAgent(dbAgent, t, agentInactiveDisconnectTimeout) ==
    IF ~dbAgent.FirstConnectedAt.Valid
        THEN WorkspaceAgentConnecting
    ELSE IF After(dbAgent.DisconnectedAt.Time, dbAgent.LastConnectedAt.Time)
        THEN WorkspaceAgentDisconnected
    ELSE IF Sub(t, dbAgent.LastConnectedAt.Time) > agentInactiveDisconnectTimeout
        THEN WorkspaceAgentDisconnected
    ELSE IF dbAgent.LastConnectedAt.Valid
        THEN WorkspaceAgentConnected
    ELSE StatusUnset

----------------------------------------------------------------------------
(* SpecConvert: the handlers that derive the status from a stored row *)

StatusInputs == [agent : AgentRows, now : Times, timeout : Durations]

NoOut == [handler |-> "none", status |-> "none", code |-> 0,
          accepted |-> FALSE, relay |-> FALSE, stream |-> FALSE]

Refused(handler, status, code) ==
    [handler |-> handler, status |-> status, code |-> code,
     accepted |-> FALSE, relay |-> FALSE, stream |-> FALSE]

\* GET of one agent: the converted agent, with its status, is the response.
workspaceAgent ==
    /\ in \in StatusInputs
    /\ \E authorized \in BOOLEAN :
         out' = IF ~authorized
                THEN Refused("get", "none", 404)
                ELSE Refused("get",
                             convertWorkspaceAgent(in.agent, in.now, in.timeout),
                             200)
    /\ UNCHANGED <<now, latestBuild, agentRow, hs, fenced, in, cache, st, rep, dc,
                 pty, bus, wg>>

\* The client dial handler: relays signaling only for a connected agent.
workspaceAgentDial ==
    /\ in \in StatusInputs
    /\ \E authorized \in BOOLEAN, acceptOk \in BOOLEAN, yamuxOk \in BOOLEAN :
         LET status == convertWorkspaceAgent(in.agent, in.now, in.timeout) IN
         out' = IF ~authorized
                    THEN Refused("dial", "none", 404)
                ELSE IF status # WorkspaceAgentConnected
                    THEN Refused("dial", status, 412)
                ELSE IF ~acceptOk
                    THEN Refused("dial", status, 400)
                ELSE [handler |-> "dial", status |-> status, code |-> 101,
                      accepted |-> TRUE, relay |-> yamuxOk, stream |-> FALSE]
    /\ UNCHANGED <<now, latestBuild, agentRow, hs, fenced, in, cache, st, rep, dc,
                 pty, bus, wg>>

workspaceAgentPTYGateLoose ==
    /\ in \in StatusInputs
    /\ \E authorized \in BOOLEAN, reconnectOk \in BOOLEAN, acceptOk \in BOOLEAN,
          acquireOk \in BOOLEAN, ptyOk \in BOOLEAN :
         LET status == convertWorkspaceAgent(in.agent, in.now, in.timeout) IN
         out' = IF ~authorized
                    THEN Refused("pty", "none", 404)
                ELSE IF status = WorkspaceAgentDisconnected
                    THEN Refused("pty", status, 428)
                ELSE IF ~reconnectOk \/ ~acceptOk
                    THEN Refused("pty", status, 400)
                ELSE [handler |-> "pty", status |-> status, code |-> 101,
                      accepted |-> TRUE, relay |-> FALSE,
                      stream |-> acquireOk /\ ptyOk]
    /\ UNCHANGED <<now, latestBuild, agentRow, hs, fenced, in, cache, st, rep, dc,
                 pty, bus, wg>>

\* The terminal handler: opens a reconnecting-pty stream only for a
\* connected agent.
workspaceAgentPTY ==
    /\ in \in StatusInputs
    /\ \E authorized \in BOOLEAN, reconnectOk \in BOOLEAN, acceptOk \in BOOLEAN,
          acquireOk \in BOOLEAN, ptyOk \in BOOLEAN :
         LET status == convertWorkspaceAgent(in.agent, in.now, in.timeout) IN
         out' = IF ~authorized
                    THEN Refused("pty", "none", 404)
                ELSE IF status # WorkspaceAgentConnected
                    THEN Refused("pty", status, 428)
                ELSE IF ~reconnectOk \/ ~acceptOk
                    THEN Refused("pty", status, 400)
                ELSE [handler |-> "pty", status |-> status, code |-> 101,
                      accepted |-> TRUE, relay |-> FALSE,
                      stream |-> acquireOk /\ ptyOk]
    /\ UNCHANGED <<now, latestBuild, agentRow, hs, fenced, in, cache, st, rep, dc,
                 pty, bus, wg>>

----------------------------------------------------------------------------
(* Spec: workspaceAgentListen, the agent-facing listener *)

\* Two concurrent workspaceAgentListen requests of the one agent.
Handlers == {"h1", "h2"}

\* The build the agent's resource was created under (build.ID).
AgentBuild == 1

IdleHandler ==
    [pc |-> "idle",               \* idle, ensure, accept, loop, closing
     row |-> [FirstConnectedAt |-> Null, LastConnectedAt |-> Null,
              DisconnectedAt |-> Null],      \* httpmw.WorkspaceAgent(r)
     firstConnectedAt |-> Null,
     lastConnectedAt |-> Null,
     disconnectedAt |-> Null,
     accepted |-> FALSE,          \* websocket.Accept succeeded
     relay |-> FALSE,             \* peerbroker.ProxyDial returned a closer
     code |-> 0,                  \* HTTP status written instead of upgrading
     closeStatus |-> "none",      \* status of an explicit conn.Close
     err |-> "nil",               \* what the tick's ensureLatestBuild returned
     tdAttempts |-> 0,            \* persists attempted by the deferred teardown
     tdOk |-> FALSE,              \* whether that persist succeeded
     late |-> FALSE]              \* history: request began after a fencing

\* The handler returns: its locals are gone, its outcome stays visible.
Returned(hr) ==
    [hr EXCEPT !.pc = "idle",
               !.row = IdleHandler.row,
               !.firstConnectedAt = Null,
               !.lastConnectedAt = Null,
               !.disconnectedAt = Null,
               !.relay = FALSE]

ensureLatestBuildLookupOnly(lookupOk) ==
    IF ~lookupOk THEN "dberr" ELSE "nil"

\* ensureLatestBuild: a failed lookup and an outdated build are both errors.
ensureLatestBuild(lookupOk) ==
    IF ~lookupOk THEN "dberr"
    ELSE IF AgentBuild # latestBuild THEN "build is outdated"
    ELSE "nil"

\* The parameters updateConnectionTimes passes to
\* UpdateWorkspaceAgentConnectionByID.
ConnectionParams(first, last, disc) ==
    [FirstConnectedAt |-> first, LastConnectedAt |-> last,
     DisconnectedAt |-> disc]

updateConnectionTimesKeepsLast(ok, first, last, disc) ==
    agentRow' = IF ok
                THEN ConnectionParams(first, agentRow.LastConnectedAt, disc)
                ELSE agentRow

\* updateConnectionTimes: the row is overwritten, or an error leaves it as is.
updateConnectionTimes(ok, first, last, disc) ==
    agentRow' = IF ok THEN ConnectionParams(first, last, disc) ELSE agentRow

FirstConnectedAtOfAlwaysNow(row) == NullTime(now)

FirstConnectedAtOfKeepsAbsent(row) == row.FirstConnectedAt

\* firstConnectedAt: the row's value, or now if the row has none.
FirstConnectedAtOf(row) ==
    IF row.FirstConnectedAt.Valid
    THEN row.FirstConnectedAt
    ELSE NullTime(now)

\* Request start: the middleware loads the agent row.
ListenStart(h) ==
    /\ hs[h].pc = "idle"
    /\ hs' = [hs EXCEPT ![h] = [IdleHandler EXCEPT !.pc = "ensure",
                                                   !.row = agentRow,
                                                   !.late = fenced]]
    /\ UNCHANGED <<now, latestBuild, agentRow, fenced, in, out, cache, st, rep, dc,
                 pty, bus, wg>>

ListenEnsureNoRefuse(h) ==
    /\ hs[h].pc = "ensure"
    /\ \E lookupOk \in BOOLEAN :
         hs' = [hs EXCEPT ![h] =
                  IF ensureLatestBuild(lookupOk) = "dberr"
                  THEN Returned([@ EXCEPT !.code = 403])
                  ELSE [@ EXCEPT !.pc = "accept"]]
    /\ UNCHANGED <<now, latestBuild, agentRow, fenced, in, out, cache, st, rep, dc,
                 pty, bus, wg>>

\* The build check before the upgrade: 403 for a non-latest build.
ListenEnsure(h) ==
    /\ hs[h].pc = "ensure"
    /\ \E lookupOk \in BOOLEAN :
         hs' = [hs EXCEPT ![h] =
                  IF ensureLatestBuild(lookupOk) # "nil"
                  THEN Returned([@ EXCEPT !.code = 403])
                  ELSE [@ EXCEPT !.pc = "accept"]]
    /\ UNCHANGED <<now, latestBuild, agentRow, fenced, in, out, cache, st, rep, dc,
                 pty, bus, wg>>

\* websocket.Accept, yamux.Server, ProxyDial, then the first persist.
ListenAccept(h) ==
    /\ hs[h].pc = "accept"
    /\ \E acceptOk \in BOOLEAN, relayOk \in BOOLEAN, persistOk \in BOOLEAN :
         LET firstConnectedAt == FirstConnectedAtOf(hs[h].row)
             lastConnectedAt == NullTime(now)
             disconnectedAt == hs[h].row.DisconnectedAt
         IN
         IF ~acceptOk
         THEN /\ hs' = [hs EXCEPT ![h] = Returned([@ EXCEPT !.code = 400])]
              /\ UNCHANGED agentRow
         ELSE IF ~relayOk
         THEN /\ hs' = [hs EXCEPT ![h] =
                        Returned([@ EXCEPT !.accepted = TRUE,
                                           !.closeStatus = "abnormal"])]
              /\ UNCHANGED agentRow
         ELSE /\ hs' = [hs EXCEPT ![h] =
                   [@ EXCEPT !.pc = IF persistOk THEN "loop" ELSE "closing",
                             !.accepted = TRUE,
                             !.relay = TRUE,
                             !.firstConnectedAt = firstConnectedAt,
                             !.lastConnectedAt = lastConnectedAt,
                             !.disconnectedAt = disconnectedAt,
                             !.closeStatus = IF persistOk THEN "none"
                                             ELSE "abnormal"]]
              /\ updateConnectionTimes(persistOk, firstConnectedAt,
                                       lastConnectedAt, disconnectedAt)
    /\ UNCHANGED <<now, latestBuild, fenced, in, out, cache, st, rep, dc,
                 pty, bus, wg>>

ListenTickKeepsLooping(h) ==
    /\ hs[h].pc = "loop"
    /\ \E persistOk \in BOOLEAN, lookupOk \in BOOLEAN :
         LET lastConnectedAt == NullTime(now)
             err == ensureLatestBuild(lookupOk)
         IN
         /\ updateConnectionTimes(persistOk, hs[h].firstConnectedAt,
                                  lastConnectedAt, hs[h].disconnectedAt)
         /\ IF ~persistOk
            THEN /\ hs' = [hs EXCEPT ![h] =
                      [@ EXCEPT !.lastConnectedAt = lastConnectedAt,
                                !.closeStatus = "abnormal"]]
                 /\ UNCHANGED fenced
            ELSE IF err # "nil"
            THEN /\ hs' = [hs EXCEPT ![h] =
                      [@ EXCEPT !.pc = "closing",
                                !.lastConnectedAt = lastConnectedAt,
                                !.err = err,
                                !.closeStatus = "goingaway"]]
                 /\ fenced' = (fenced \/ err = "build is outdated")
            ELSE /\ hs' = [hs EXCEPT ![h] =
                      [@ EXCEPT !.lastConnectedAt = lastConnectedAt]]
                 /\ UNCHANGED fenced
    /\ UNCHANGED <<now, latestBuild, in, out, cache, st, rep, dc,
                 pty, bus, wg>>

\* case <-ticker.C: refresh last_connected_at, persist, re-check the build.
ListenTick(h) ==
    /\ hs[h].pc = "loop"
    /\ \E persistOk \in BOOLEAN, lookupOk \in BOOLEAN :
         LET lastConnectedAt == NullTime(now)
             err == ensureLatestBuild(lookupOk)
         IN
         /\ updateConnectionTimes(persistOk, hs[h].firstConnectedAt,
                                  lastConnectedAt, hs[h].disconnectedAt)
         /\ IF ~persistOk
            THEN /\ hs' = [hs EXCEPT ![h] =
                      [@ EXCEPT !.pc = "closing",
                                !.lastConnectedAt = lastConnectedAt,
                                !.closeStatus = "abnormal"]]
                 /\ UNCHANGED fenced
            ELSE IF err # "nil"
            THEN /\ hs' = [hs EXCEPT ![h] =
                      [@ EXCEPT !.pc = "closing",
                                !.lastConnectedAt = lastConnectedAt,
                                !.err = err,
                                !.closeStatus = "goingaway"]]
                 /\ fenced' = (fenced \/ err = "build is outdated")
            ELSE /\ hs' = [hs EXCEPT ![h] =
                      [@ EXCEPT !.lastConnectedAt = lastConnectedAt]]
                 /\ UNCHANGED fenced
    /\ UNCHANGED <<now, latestBuild, in, out, cache, st, rep, dc,
                 pty, bus, wg>>

ListenSessionClosedNoTeardown(h) ==
    /\ hs[h].pc = "loop"
    /\ hs' = [hs EXCEPT ![h] = Returned(@)]
    /\ UNCHANGED <<now, latestBuild, agentRow, fenced, in, out, cache, st, rep, dc,
                 pty, bus, wg>>

\* case <-session.CloseChan(): the transport session ended.
ListenSessionClosed(h) ==
    /\ hs[h].pc = "loop"
    /\ hs' = [hs EXCEPT ![h] = [@ EXCEPT !.pc = "closing"]]
    /\ UNCHANGED <<now, latestBuild, agentRow, fenced, in, out, cache, st, rep, dc,
                 pty, bus, wg>>

\* The deferred teardown: disconnected_at = now, one best-effort persist,
\* then closer.Close and wsNetConn.Close as the handler returns.
ListenTeardown(h) ==
    /\ hs[h].pc = "closing"
    /\ \E persistOk \in BOOLEAN :
         LET disconnectedAt == NullTime(now) IN
         /\ updateConnectionTimes(persistOk, hs[h].firstConnectedAt,
                                  hs[h].lastConnectedAt, disconnectedAt)
         /\ hs' = [hs EXCEPT ![h] =
                Returned([@ EXCEPT !.tdAttempts = @ + 1,
                                   !.tdOk = persistOk])]
    /\ UNCHANGED <<now, latestBuild, fenced, in, out, cache, st, rep, dc,
                 pty, bus, wg>>

\* The wall clock advances.
Advance ==
    /\ now < Epoch + MaxTime
    /\ now' = now + 1
    /\ UNCHANGED <<latestBuild, agentRow, hs, fenced, in, out, cache, st, rep, dc,
                 pty, bus, wg>>

\* A newer build of the workspace is created and becomes the latest.
NewBuild ==
    /\ latestBuild < MaxBuild
    /\ latestBuild' = latestBuild + 1
    /\ UNCHANGED <<now, agentRow, hs, fenced, in, out, cache, st, rep, dc,
                 pty, bus, wg>>

Init ==
    /\ now = Epoch + 1
    /\ wg = <<>>
    /\ latestBuild = AgentBuild
    /\ agentRow = [FirstConnectedAt |-> Null, LastConnectedAt |-> Null,
                   DisconnectedAt |-> Null]
    /\ hs = [h \in Handlers |-> IdleHandler]
    /\ fenced = FALSE
    /\ in = <<>>
    /\ out = NoOut
    /\ cache = <<>>
    /\ st = <<>>
    /\ rep = <<>>
    /\ dc = <<>>
    /\ pty = <<>>
    /\ bus = <<>>

Next ==
    \/ \E h \in Handlers : ListenStart(h)
    \/ \E h \in Handlers : ListenEnsure(h)
    \/ \E h \in Handlers : ListenAccept(h)
    \/ \E h \in Handlers : ListenTick(h)
    \/ \E h \in Handlers : ListenSessionClosed(h)
    \/ \E h \in Handlers : ListenTeardown(h)
    \/ Advance
    \/ NewBuild

Spec == Init /\ [][Next]_vars

----------------------------------------------------------------------------
(* SpecConvert *)

InitConvert ==
    /\ now = Epoch + 1
    /\ wg = <<>>
    /\ latestBuild = AgentBuild
    /\ agentRow = [FirstConnectedAt |-> Null, LastConnectedAt |-> Null,
                   DisconnectedAt |-> Null]
    /\ hs = [h \in Handlers |-> IdleHandler]
    /\ fenced = FALSE
    /\ in \in StatusInputs
    /\ out = NoOut
    /\ cache = <<>>
    /\ st = <<>>
    /\ rep = <<>>
    /\ dc = <<>>
    /\ pty = <<>>
    /\ bus = <<>>

NextConvert ==
    \/ workspaceAgent
    \/ workspaceAgentDial
    \/ workspaceAgentPTY

SpecConvert == InitConvert /\ [][NextConvert]_vars

----------------------------------------------------------------------------
(* SpecFill: gap-filling of the daily-active-user rows *)

MaxRows == 3        \* rows returned by GetDAUsFromAgentStats
MaxDate == 12       \* latest row date, in half days

\* const day = time.Hour * 24, in half days.
Day == 2

\* Counts of distinct users a day can have in the query result.
DausValues == {1, 3}

\* database.GetDAUsFromAgentStatsRow
DAURows == [Date : 0..MaxDate, Daus : DausValues]

RowSeqs == UNION {[1..n -> DAURows] : n \in 0..MaxRows}

\* row.Date.Sub(last.Date) for dates far closer than the Duration range.
DateSub(t, u) == t - u

RECURSIVE FillGapKeepsCount(_, _, _)
FillGapKeepsCount(last, diff, newRows) ==
    IF diff > Day
    THEN LET next == [last EXCEPT !.Date = last.Date + Day] IN
         FillGapKeepsCount(next, diff - Day, Append(newRows, next))
    ELSE newRows

RECURSIVE FillGapInclusive(_, _, _)
FillGapInclusive(last, diff, newRows) ==
    IF diff >= Day
    THEN LET next == [last EXCEPT !.Date = last.Date + Day, !.Daus = 0] IN
         FillGapInclusive(next, diff - Day, Append(newRows, next))
    ELSE newRows

\* The inner loop of fillEmptyDAUDays: while more than a day is left up to
\* the row, advance the copy of the previous row by a day, zero its count
\* and append it.
RECURSIVE FillGap(_, _, _)
FillGap(last, diff, newRows) ==
    IF diff > Day
    THEN LET next == [last EXCEPT !.Date = last.Date + Day, !.Daus = 0] IN
         FillGap(next, diff - Day, Append(newRows, next))
    ELSE newRows

RECURSIVE FillFromNoFirst(_, _, _)
FillFromNoFirst(rows, i, newRows) ==
    IF i > Len(rows) THEN newRows
    ELSE IF i = 1 THEN FillFromNoFirst(rows, i + 1, newRows)
    ELSE LET last == rows[i - 1]
             diff == DateSub(rows[i].Date, last.Date)
         IN FillFromNoFirst(rows, i + 1,
                            Append(FillGap(last, diff, newRows), rows[i]))

RECURSIVE FillFrom(_, _, _)
FillFrom(rows, i, newRows) ==
    IF i > Len(rows) THEN newRows
    ELSE IF i = 1 THEN FillFrom(rows, i + 1, Append(newRows, rows[i]))
    ELSE LET last == rows[i - 1]
             diff == DateSub(rows[i].Date, last.Date)
         IN FillFrom(rows, i + 1,
                     Append(FillGap(last, diff, newRows), rows[i]))

\* metricscache.fillEmptyDAUDays
fillEmptyDAUDays(rows) == FillFrom(rows, 1, <<>>)

RECURSIVE ExportedFillGapInclusive(_, _, _)
ExportedFillGapInclusive(last, diff, newRows) ==
    IF diff >= Day
    THEN LET next == [last EXCEPT !.Date = last.Date + Day, !.Daus = 0] IN
         ExportedFillGapInclusive(next, diff - Day, Append(newRows, next))
    ELSE newRows

RECURSIVE ExportedFillGap(_, _, _)
ExportedFillGap(last, diff, newRows) ==
    IF diff > Day
    THEN LET next == [last EXCEPT !.Date = last.Date + Day, !.Daus = 0] IN
         ExportedFillGap(next, diff - Day, Append(newRows, next))
    ELSE newRows

RECURSIVE ExportedFillFrom(_, _, _)
ExportedFillFrom(rows, i, newRows) ==
    IF i > Len(rows) THEN newRows
    ELSE IF i = 1 THEN ExportedFillFrom(rows, i + 1, Append(newRows, rows[i]))
    ELSE LET last == rows[i - 1]
             diff == DateSub(rows[i].Date, last.Date)
         IN ExportedFillFrom(rows, i + 1,
                Append(ExportedFillGap(last, diff, newRows), rows[i]))

\* coderd.FillEmptyDAUDays, the copy the daus handler uses.
FillEmptyDAUDays(rows) == ExportedFillFrom(rows, 1, <<>>)

\* Cache.refresh builds its response from the gap-filled query result.
refreshFill ==
    /\ in \in RowSeqs
    /\ out' = [handler |-> "refresh", rows |-> fillEmptyDAUDays(in)]
    /\ UNCHANGED <<now, latestBuild, agentRow, hs, fenced, in, cache, st, rep, dc,
                 pty, bus, wg>>

\* The daus handler builds its response the same way.
daus ==
    /\ in \in RowSeqs
    /\ out' = [handler |-> "daus", rows |-> FillEmptyDAUDays(in)]
    /\ UNCHANGED <<now, latestBuild, agentRow, hs, fenced, in, cache, st, rep, dc,
                 pty, bus, wg>>

InitFill ==
    /\ now = Epoch + 1
    /\ wg = <<>>
    /\ latestBuild = AgentBuild
    /\ agentRow = [FirstConnectedAt |-> Null, LastConnectedAt |-> Null,
                   DisconnectedAt |-> Null]
    /\ hs = [h \in Handlers |-> IdleHandler]
    /\ fenced = FALSE
    /\ in \in RowSeqs
    /\ out = NoOut
    /\ cache = <<>>
    /\ st = <<>>
    /\ rep = <<>>
    /\ dc = <<>>
    /\ pty = <<>>
    /\ bus = <<>>

NextFill ==
    \/ refreshFill
    \/ daus

SpecFill == InitFill /\ [][NextFill]_vars

----------------------------------------------------------------------------
(* SpecCache: the metrics cache, its refresh loop and its shutdown *)

MaxFails == 7       \* failed refreshes counted within one cycle

\* retry.New(time.Second, time.Minute), in seconds.
RetryFloor == 1
RetryCeil == 60

\* What GetDAUsFromAgentStats can return.
QueryResults ==
    {<<>>,
     <<[Date |-> 0, Daus |-> 1], [Date |-> 2, Daus |-> 3]>>,
     <<[Date |-> 2, Daus |-> 3], [Date |-> 8, Daus |-> 1]>>}

\* codersdk.DAUEntry{Date: ent.Date, DAUs: int(ent.Daus)}
DAUEntry(ent) == [Date |-> ent.Date, DAUs |-> ent.Daus]

Min(a, b) == IF a < b THEN a ELSE b

\* The atomic pointer getDAUsResponse: nil, or pointing at a response.
NilResponse == [IsNil |-> TRUE, Entries |-> <<>>]

PointerTo(entries) == [IsNil |-> FALSE, Entries |-> entries]

\* cache state after New: nothing published, doneCh open.
NewCache ==
    [pc |-> "notstarted",  \* notstarted, wait, delete, query, build, store,
                           \* select, exited
     delay |-> 0,          \* Retrier.delay
     daus |-> <<>>,        \* refresh: the query result
     filled |-> <<>>,      \* refresh: fillEmptyDAUDays(daus)
     resp |-> <<>>,        \* refresh: resp.Entries built so far
     getDAUsResponse |-> NilResponse,
     doneCh |-> FALSE,     \* closed by Close
     ctxDone |-> FALSE,    \* the context given to Start is cancelled
     tick |-> FALSE,       \* a tick is waiting in ticker.C
     wg |-> 0,
     closer |-> "none",    \* the Close call: none, waiting, returned
     \* history
     wait |-> -1,          \* length of the current or latest Retrier wait
     prevWait |-> -1,      \* length of the wait before it in this cycle
     fails |-> 0,          \* failed refreshes in this cycle
     pubs |-> 0,           \* snapshots published in this cycle
     lastErr |-> "none",   \* result of the latest refresh: nil, delete, query;
                           \* none before it has returned
     queried |-> FALSE,    \* the latest refresh issued its query
     before |-> NilResponse,    \* the snapshot when the latest refresh began
     goodRows |-> <<>>,    \* query result of the latest successful refresh
     refreshed |-> FALSE,  \* some refresh has succeeded
     ctxAtWait |-> FALSE,  \* the context was done when Wait was entered
     afterCtx |-> 0]       \* refreshes begun with the context done, up to 2

\* Retrier.Wait is entered: the delay doubles, capped at the ceiling. A new
\* Retrier starts with no delay.
WaitEnter(c, fresh) ==
    LET d == Min((IF fresh THEN 0 ELSE c.delay) * 2, RetryCeil) IN
    [c EXCEPT !.pc = "wait",
              !.delay = d,
              !.prevWait = IF fresh THEN -1 ELSE c.wait,
              !.wait = d,
              !.ctxAtWait = c.ctxDone]

\* A new cycle of the outer loop: retry.New, then the first Wait.
NewCycle(c) ==
    WaitEnter([c EXCEPT !.fails = 0, !.pubs = 0, !.lastErr = "none"], TRUE)

\* refresh returned an error: logged, continue with the next Wait.
RefreshFailed(c, err) ==
    WaitEnter([c EXCEPT !.lastErr = err,
                        !.fails = Min(c.fails + 1, MaxFails),
                        !.daus = <<>>, !.filled = <<>>, !.resp = <<>>],
              FALSE)

cacheUnchanged ==
    UNCHANGED <<now, latestBuild, agentRow, hs, fenced, in, st, rep, dc, pty,
                bus, wg>>

\* Cache.Start: the background goroutine begins its first cycle.
CacheStart ==
    /\ cache.pc = "notstarted"
    /\ cache' = NewCycle([cache EXCEPT !.wg = 1])
    /\ UNCHANGED out
    /\ cacheUnchanged

\* Retrier.Wait: the timer fires, Wait returns true and refresh begins. A
\* timer of a positive delay is not ready when the select is entered, so a
\* context that is done by then is the only case that can be taken.
CacheWaitFire ==
    /\ cache.pc = "wait"
    /\ ~(cache.ctxAtWait /\ cache.delay > 0)
    /\ cache' = [cache EXCEPT !.pc = "delete",
                              !.afterCtx = IF cache.ctxDone
                                           THEN Min(@ + 1, 2) ELSE @,
                              !.delay = IF cache.delay < RetryFloor
                                        THEN RetryFloor ELSE cache.delay,
                              !.lastErr = "none",
                              !.queried = FALSE,
                              !.before = cache.getDAUsResponse]
    /\ UNCHANGED out
    /\ cacheUnchanged

\* Retrier.Wait: the context is done, Wait returns false, the retry loop ends.
CacheWaitCancelled ==
    /\ cache.pc = "wait"
    /\ cache.ctxDone
    /\ cache' = [cache EXCEPT !.pc = "select"]
    /\ UNCHANGED out
    /\ cacheUnchanged

RefreshDeleteIgnoresError ==
    /\ cache.pc = "delete"
    /\ \E ok \in BOOLEAN :
         cache' = IF ok THEN [cache EXCEPT !.pc = "query"]
                  ELSE [cache EXCEPT !.pc = "query", !.lastErr = "delete"]
    /\ UNCHANGED out
    /\ cacheUnchanged

\* refresh: DeleteOldAgentStats.
RefreshDelete ==
    /\ cache.pc = "delete"
    /\ \E ok \in BOOLEAN :
         cache' = IF ok THEN [cache EXCEPT !.pc = "query"]
                  ELSE RefreshFailed(cache, "delete")
    /\ UNCHANGED out
    /\ cacheUnchanged

\* refresh: GetDAUsFromAgentStats, then the gap-fill of its rows.
RefreshQuery ==
    /\ cache.pc = "query"
    /\ \E ok \in BOOLEAN, rows \in QueryResults :
         cache' = IF ok
                  THEN [cache EXCEPT !.pc = "build",
                                     !.queried = TRUE,
                                     !.daus = rows,
                                     !.filled = fillEmptyDAUDays(rows),
                                     !.resp = <<>>]
                  ELSE RefreshFailed([cache EXCEPT !.queried = TRUE], "query")
    /\ UNCHANGED out
    /\ cacheUnchanged

RefreshAppendPublishing ==
    /\ cache.pc = "build"
    /\ cache' =
         IF Len(cache.resp) < Len(cache.filled)
         THEN LET r == Append(cache.resp,
                              DAUEntry(cache.filled[Len(cache.resp) + 1]))
              IN [cache EXCEPT !.resp = r,
                               !.getDAUsResponse = PointerTo(r)]
         ELSE [cache EXCEPT !.pc = "store"]
    /\ UNCHANGED out
    /\ cacheUnchanged

\* refresh: one round of the loop that appends the entries to resp.
RefreshAppend ==
    /\ cache.pc = "build"
    /\ cache' =
         IF Len(cache.resp) < Len(cache.filled)
         THEN [cache EXCEPT !.resp =
                   Append(cache.resp,
                          DAUEntry(cache.filled[Len(cache.resp) + 1]))]
         ELSE [cache EXCEPT !.pc = "store"]
    /\ UNCHANGED out
    /\ cacheUnchanged

\* refresh: getDAUsResponse.Store(&resp), return nil, break.
RefreshStore ==
    /\ cache.pc = "store"
    /\ cache' = [cache EXCEPT !.pc = "select",
                              !.getDAUsResponse = PointerTo(cache.resp),
                              !.lastErr = "nil",
                              !.pubs = Min(cache.pubs + 1, 2),
                              !.goodRows = cache.daus,
                              !.refreshed = TRUE,
                              !.daus = <<>>, !.filled = <<>>, !.resp = <<>>]
    /\ UNCHANGED out
    /\ cacheUnchanged

CacheSelectTickKeepsRetrier ==
    /\ cache.pc = "select"
    /\ cache.tick
    /\ cache' = WaitEnter([cache EXCEPT !.tick = FALSE, !.fails = 0,
                                        !.pubs = 0, !.lastErr = "none"],
                          FALSE)
    /\ UNCHANGED out
    /\ cacheUnchanged

\* select: case <-ticker.C, the next cycle begins.
CacheSelectTick ==
    /\ cache.pc = "select"
    /\ cache.tick
    /\ cache' = NewCycle([cache EXCEPT !.tick = FALSE])
    /\ UNCHANGED out
    /\ cacheUnchanged

\* select: case <-c.doneCh, the goroutine returns.
CacheSelectDone ==
    /\ cache.pc = "select"
    /\ cache.doneCh
    /\ cache' = [cache EXCEPT !.pc = "exited", !.wg = 0]
    /\ UNCHANGED out
    /\ cacheUnchanged

\* select: case <-ctx.Done(), the goroutine returns.
CacheSelectCtx ==
    /\ cache.pc = "select"
    /\ cache.ctxDone
    /\ cache' = [cache EXCEPT !.pc = "exited", !.wg = 0]
    /\ UNCHANGED out
    /\ cacheUnchanged

\* The ticker delivers a tick; ticker.C holds at most one.
CacheTick ==
    /\ cache.pc \notin {"notstarted", "exited"}
    /\ ~cache.tick
    /\ cache' = [cache EXCEPT !.tick = TRUE]
    /\ UNCHANGED out
    /\ cacheUnchanged

\* Cache.Close: close(c.doneCh), then c.wg.Wait().
CacheClose ==
    /\ cache.pc # "notstarted"
    /\ cache.closer = "none"
    /\ cache' = [cache EXCEPT !.doneCh = TRUE, !.closer = "waiting"]
    /\ UNCHANGED out
    /\ cacheUnchanged

\* Cache.Close: wg.Wait() is over, Close returns.
CacheCloseReturn ==
    /\ cache.closer = "waiting"
    /\ cache.wg = 0
    /\ cache' = [cache EXCEPT !.closer = "returned"]
    /\ UNCHANGED out
    /\ cacheUnchanged

\* The owner of the context given to Start cancels it.
CacheCancel ==
    /\ cache.pc # "notstarted"
    /\ ~cache.ctxDone
    /\ cache' = [cache EXCEPT !.ctxDone = TRUE]
    /\ UNCHANGED out
    /\ cacheUnchanged

\* Cache.GetDAUs: load the pointer, an empty response if it is nil. The
\* response is kept with what the loop was doing and had completed at the call.
GetDAUs ==
    /\ out' = [handler |-> "GetDAUs",
               during |-> cache.pc,
               refreshed |-> cache.refreshed,
               goodRows |-> cache.goodRows,
               resp |-> IF cache.getDAUsResponse.IsNil
                        THEN [Entries |-> <<>>]
                        ELSE [Entries |-> cache.getDAUsResponse.Entries]]
    /\ UNCHANGED cache
    /\ cacheUnchanged

InitCache ==
    /\ now = Epoch + 1
    /\ wg = <<>>
    /\ latestBuild = AgentBuild
    /\ agentRow = [FirstConnectedAt |-> Null, LastConnectedAt |-> Null,
                   DisconnectedAt |-> Null]
    /\ hs = [h \in Handlers |-> IdleHandler]
    /\ fenced = FALSE
    /\ in = <<>>
    /\ out = NoOut
    /\ cache = NewCache
    /\ st = <<>>
    /\ rep = <<>>
    /\ dc = <<>>
    /\ pty = <<>>
    /\ bus = <<>>

NextCache ==
    \/ CacheStart
    \/ CacheWaitFire
    \/ CacheWaitCancelled
    \/ RefreshDelete
    \/ RefreshQuery
    \/ RefreshAppend
    \/ RefreshStore
    \/ CacheSelectTick
    \/ CacheSelectDone
    \/ CacheSelectCtx
    \/ CacheTick
    \/ CacheClose
    \/ CacheCloseReturn
    \/ CacheCancel
    \/ GetDAUs

SpecCache == InitCache /\ [][NextCache]_vars

\* The goroutine of Start and the caller of Close are scheduled fairly, and
\* a select with several ready cases takes each of them sooner or later.
CacheFairness ==
    /\ WF_vars(CacheWaitFire)
    /\ SF_vars(CacheWaitCancelled)
    /\ WF_vars(RefreshDelete)
    /\ WF_vars(RefreshQuery)
    /\ WF_vars(RefreshAppend)
    /\ WF_vars(RefreshStore)
    /\ SF_vars(CacheSelectDone)
    /\ SF_vars(CacheSelectCtx)
    /\ WF_vars(CacheCloseReturn)

SpecCacheFair == SpecCache /\ CacheFairness

----------------------------------------------------------------------------
(* SpecStats: the agent's per-protocol counters, agent/stats.go *)

MaxBytes == 2       \* bytes the streams read and write, all together

\* The protocols, named in the order of their first stream.
Protocols == {"ssh", "tcp"}

Before(protocol) == IF protocol = "ssh" THEN {} ELSE {"ssh"}

\* The streams, named in the order goConn is given them.
Streams == {"c1", "c2"}

Earlier(c) == IF c = "c1" THEN {} ELSE {"c1"}

\* The fields of ProtocolStats, in the order Copy loads and Reset stores them.
Fields == <<"NumConns", "RxBytes", "TxBytes">>

\* A key without an entry in the ProtocolStats map.
NoStats == [present |-> FALSE, NumConns |-> 0, RxBytes |-> 0, TxBytes |-> 0]

\* &ProtocolStats{}
NewProtocolStats ==
    [present |-> TRUE, NumConns |-> 0, RxBytes |-> 0, TxBytes |-> 0]

\* An entry of the map Copy builds: absent, or a pointer to a ProtocolStats
\* of its own ("own", with the values it holds) or to the live one ("live").
NoCopy ==
    [present |-> FALSE, ref |-> "own", NumConns |-> 0, RxBytes |-> 0,
     TxBytes |-> 0]

\* A stream not yet handed to goConn.
NoConn == [state |-> "none", protocol |-> "ssh"]

IdleCopy ==
    [pc |-> "idle", todo |-> {}, cur |-> "ssh", field |-> 1,
     cp |-> [k \in Protocols |-> NoCopy]]

IdleReset == [pc |-> "idle", todo |-> {}, cur |-> "ssh", field |-> 1]

\* An entry of a map Copy returned, the values left out: absent, or a
\* pointer to a ProtocolStats of its own or to the live one.
NoPointer == [present |-> FALSE, ref |-> "own"]

\* &Stats{ProtocolStats: make(map[string]*ProtocolStats)}
NewStats ==
    [ProtocolStats |-> [k \in Protocols |-> NoStats],
     mu |-> "free",            \* free, RLock (held by Copy), Lock (by Reset)
     conns |-> [c \in Streams |-> NoConn],
     copy |-> IdleCopy,
     reset |-> IdleReset,
     snap |-> [k \in Protocols |-> NoPointer],  \* the map Copy returned last
     copied |-> FALSE,         \* Copy has returned
     \* history
     bytes |-> 0,              \* bytes all reads and writes returned
     rx |-> [k \in Protocols |-> 0],   \* bytes the reads returned, and
     tx |-> [k \in Protocols |-> 0],   \* the writes, before the first Reset
     resetSeen |-> FALSE,      \* a Reset has begun
     quiet |-> FALSE,          \* no stream activity since the latest Reset began
     keysBefore |-> {},        \* the keys when the latest Reset began
     reported |-> 0]           \* SpecCycle: bytes in the snapshot reported

Keys(m) == {k \in Protocols : m[k].present}

statsUnchanged ==
    UNCHANGED <<now, latestBuild, agentRow, hs, fenced, in, out, cache, rep, dc,
                pty, bus, wg>>

\* goConn, under s.mu.Lock(): look the protocol up, insert a zeroed entry when
\* there is none.
goConnLocked(c, protocol) ==
    /\ st.conns[c].state = "none"
    /\ \A e \in Earlier(c) : st.conns[e].state # "none"
    /\ \A b \in Before(protocol) : st.ProtocolStats[b].present
    /\ st.mu = "free"
    /\ st' = [st EXCEPT
                !.ProtocolStats[protocol] =
                    IF @.present THEN @ ELSE NewProtocolStats,
                !.conns[c] = [state |-> "wrapped", protocol |-> protocol],
                !.quiet = FALSE]
    /\ statsUnchanged

\* goConn, after the unlock: atomic.AddInt64(&ps.NumConns, 1); go fn(cs).
goConnAdd(c) ==
    /\ st.conns[c].state = "wrapped"
    /\ st' = [st EXCEPT
                !.ProtocolStats[st.conns[c].protocol].NumConns = @ + 1,
                !.conns[c].state = "open",
                !.quiet = FALSE]
    /\ statsUnchanged

ReadCountsOnlyWithoutError(c) ==
    /\ st.conns[c].state = "open"
    /\ \E n \in 0..MaxBytes, err \in BOOLEAN :
         /\ st.bytes + n <= MaxBytes
         /\ st' = [st EXCEPT
                     !.ProtocolStats[st.conns[c].protocol].RxBytes =
                         IF err THEN @ ELSE @ + n,
                     !.bytes = @ + n,
                     !.rx[st.conns[c].protocol] =
                         IF st.resetSeen THEN @ ELSE @ + n,
                     !.quiet = FALSE]
    /\ statsUnchanged

\* ConnStats.Read: n bytes are returned, with or without an error, and added.
Read(c) ==
    /\ st.conns[c].state = "open"
    /\ \E n \in 0..MaxBytes, err \in BOOLEAN :
         /\ st.bytes + n <= MaxBytes
         /\ st' = [st EXCEPT
                     !.ProtocolStats[st.conns[c].protocol].RxBytes = @ + n,
                     !.bytes = @ + n,
                     !.rx[st.conns[c].protocol] =
                         IF st.resetSeen THEN @ ELSE @ + n,
                     !.quiet = FALSE]
    /\ statsUnchanged

\* ConnStats.Write.
Write(c) ==
    /\ st.conns[c].state = "open"
    /\ \E n \in 0..MaxBytes, err \in BOOLEAN :
         /\ st.bytes + n <= MaxBytes
         /\ st' = [st EXCEPT
                     !.ProtocolStats[st.conns[c].protocol].TxBytes = @ + n,
                     !.bytes = @ + n,
                     !.tx[st.conns[c].protocol] =
                         IF st.resetSeen THEN @ ELSE @ + n,
                     !.quiet = FALSE]
    /\ statsUnchanged

\* ConnStats.Close is net.Conn's: the stream is closed, no counter is touched.
ConnClose(c) ==
    /\ st.conns[c].state = "open"
    /\ st' = [st EXCEPT !.conns[c].state = "closed", !.quiet = FALSE]
    /\ statsUnchanged

\* Copy: s.mu.RLock(), cp := make(map), start of the range over the map.
CopyBegin ==
    /\ st.copy.pc = "idle"
    /\ st.mu = "free"
    /\ st' = [st EXCEPT !.mu = "RLock",
                        !.copy = [IdleCopy EXCEPT
                                    !.pc = "range",
                                    !.todo = Keys(st.ProtocolStats)]]
    /\ statsUnchanged

\* Copy: the range yields the next key, in any order.
CopyNext ==
    /\ st.copy.pc = "range"
    /\ \E k \in st.copy.todo :
         st' = [st EXCEPT !.copy.pc = "load",
                          !.copy.cur = k,
                          !.copy.field = 1,
                          !.copy.todo = @ \ {k},
                          !.copy.cp[k] = [NoCopy EXCEPT !.present = TRUE]]
    /\ statsUnchanged

CopyLoadSharesPointer ==
    /\ st.copy.pc = "load"
    /\ LET k == st.copy.cur IN
       st' = [st EXCEPT !.copy.cp[k].ref = "live",
                        !.copy.field = IF @ = Len(Fields) THEN 1 ELSE @ + 1,
                        !.copy.pc = IF st.copy.field = Len(Fields)
                                    THEN "range" ELSE "load"]
    /\ statsUnchanged

\* Copy: one atomic.LoadInt64 into the new ProtocolStats of the key.
CopyLoad ==
    /\ st.copy.pc = "load"
    /\ LET k == st.copy.cur
           f == Fields[st.copy.field]
       IN
       st' = [st EXCEPT !.copy.cp[k][f] = st.ProtocolStats[k][f],
                        !.copy.field = IF @ = Len(Fields) THEN 1 ELSE @ + 1,
                        !.copy.pc = IF st.copy.field = Len(Fields)
                                    THEN "range" ELSE "load"]
    /\ statsUnchanged

\* Copy: the range is over, s.mu.RUnlock(), return cp.
CopyEnd ==
    /\ st.copy.pc = "range"
    /\ st.copy.todo = {}
    /\ st' = [st EXCEPT
                !.mu = "free",
                !.copy = IdleCopy,
                !.copied = TRUE,
                !.snap = [k \in Protocols |->
                            [present |-> st.copy.cp[k].present,
                             ref |-> st.copy.cp[k].ref]]]
    /\ statsUnchanged

\* Reset: s.mu.Lock(), start of the range over the map.
ResetBegin ==
    /\ st.reset.pc = "idle"
    /\ st.mu = "free"
    /\ st' = [st EXCEPT !.mu = "Lock",
                        !.reset = [IdleReset EXCEPT
                                     !.pc = "range",
                                     !.todo = Keys(st.ProtocolStats)],
                        !.resetSeen = TRUE,
                        !.quiet = TRUE,
                        !.keysBefore = Keys(st.ProtocolStats)]
    /\ statsUnchanged

\* Reset: the range yields the next entry.
ResetNext ==
    /\ st.reset.pc = "range"
    /\ \E k \in st.reset.todo :
         st' = [st EXCEPT !.reset.pc = "store",
                          !.reset.cur = k,
                          !.reset.field = 1,
                          !.reset.todo = @ \ {k}]
    /\ statsUnchanged

ResetStoreKeepsNumConns ==
    /\ st.reset.pc = "store"
    /\ LET k == st.reset.cur
           f == Fields[st.reset.field]
       IN
       st' = [st EXCEPT !.ProtocolStats[k][f] = IF f = "NumConns" THEN @ ELSE 0,
                        !.reset.field = IF @ = Len(Fields) THEN 1 ELSE @ + 1,
                        !.reset.pc = IF st.reset.field = Len(Fields)
                                     THEN "range" ELSE "store"]
    /\ statsUnchanged

\* Reset: one atomic.StoreInt64(.., 0).
ResetStore ==
    /\ st.reset.pc = "store"
    /\ LET k == st.reset.cur
           f == Fields[st.reset.field]
       IN
       st' = [st EXCEPT !.ProtocolStats[k][f] = 0,
                        !.reset.field = IF @ = Len(Fields) THEN 1 ELSE @ + 1,
                        !.reset.pc = IF st.reset.field = Len(Fields)
                                     THEN "range" ELSE "store"]
    /\ statsUnchanged

\* Reset: the range is over, s.mu.Unlock().
ResetEnd ==
    /\ st.reset.pc = "range"
    /\ st.reset.todo = {}
    /\ st' = [st EXCEPT !.mu = "free", !.reset = IdleReset]
    /\ statsUnchanged

InitStats ==
    /\ now = Epoch + 1
    /\ wg = <<>>
    /\ latestBuild = AgentBuild
    /\ agentRow = [FirstConnectedAt |-> Null, LastConnectedAt |-> Null,
                   DisconnectedAt |-> Null]
    /\ hs = [h \in Handlers |-> IdleHandler]
    /\ fenced = FALSE
    /\ in = <<>>
    /\ out = NoOut
    /\ cache = <<>>
    /\ st = NewStats
    /\ rep = <<>>
    /\ dc = <<>>
    /\ pty = <<>>
    /\ bus = <<>>

NextStats ==
    \/ \E c \in Streams, protocol \in Protocols : goConnLocked(c, protocol)
    \/ \E c \in Streams : goConnAdd(c)
    \/ \E c \in Streams : Read(c)
    \/ \E c \in Streams : Write(c)
    \/ \E c \in Streams : ConnClose(c)
    \/ CopyBegin
    \/ CopyNext
    \/ CopyLoad
    \/ CopyEnd
    \/ ResetBegin
    \/ ResetNext
    \/ ResetStore
    \/ ResetEnd

SpecStats == InitStats /\ [][NextStats]_vars

\* SpecCycle: one reporting cycle over the same streams. The reporter takes
\* a snapshot with Copy, records it, and then calls Reset, while the streams
\* go on reading and writing.

\* Copy returns and the reporter records the bytes of the snapshot.
CycleCopyEnd ==
    /\ st.copy.pc = "range"
    /\ st.copy.todo = {}
    /\ LET cp == st.copy.cp IN
       st' = [st EXCEPT
                !.mu = "free",
                !.copy = IdleCopy,
                !.copied = TRUE,
                !.snap = [k \in Protocols |->
                            [present |-> cp[k].present, ref |-> cp[k].ref]],
                !.reported = cp["ssh"].RxBytes + cp["ssh"].TxBytes
                             + cp["tcp"].RxBytes + cp["tcp"].TxBytes]
    /\ statsUnchanged

NextCycle ==
    \/ \E c \in Streams, protocol \in Protocols : goConnLocked(c, protocol)
    \/ \E c \in Streams : goConnAdd(c)
    \/ \E c \in Streams : Read(c)
    \/ \E c \in Streams : Write(c)
    \/ \E c \in Streams : ConnClose(c)
    \/ (~st.copied /\ CopyBegin)
    \/ CopyNext
    \/ CopyLoad
    \/ CycleCopyEnd
    \/ (st.copied /\ ~st.resetSeen /\ ResetBegin)
    \/ ResetNext
    \/ ResetStore
    \/ ResetEnd

SpecCycle == InitStats /\ [][NextCycle]_vars

----------------------------------------------------------------------------
(* SpecReport: the stats report loop of the server and the agent's reporter *)

MaxReports == 3     \* report requests the server writes on one transport

\* What the agent's stats() can return: the map of a Stats.
ReportedStats ==
    {[k \in Protocols |-> NoStats],
     [k \in Protocols |-> IF k = "ssh" THEN NewProtocolStats ELSE NoStats],
     [k \in Protocols |->
         IF k = "ssh"
         THEN [present |-> TRUE, NumConns |-> 1, RxBytes |-> 2, TxBytes |-> 0]
         ELSE NewProtocolStats]}

\* numComms += int(ps.NumConns), over the entries of the map.
RECURSIVE NumComms(_, _)
NumComms(m, ks) ==
    IF ks = {} THEN 0
    ELSE LET k == CHOOSE x \in ks : TRUE IN
         m[k].NumConns + NumComms(m, ks \ {k})

\* codersdk.AgentStatsReportResponse
AgentStatsReportResponse(s) ==
    [NumComms |-> NumComms(s, Keys(s)), ProtocolStats |-> s]

\* var rep codersdk.AgentStatsReportResponse
NoReport == AgentStatsReportResponse([k \in Protocols |-> NoStats])

NewReport ==
    [pc |-> "lookup",      \* the server handler: lookup, accept, write, read,
                           \* insert, select, returned
     code |-> 0,           \* HTTP status written, 0 when none
     conn |-> "none",      \* the server's websocket: none, open, closed
     closeStatus |-> "",   \* the status of the close that closed it
     report |-> NoReport,  \* the server's rep
     toAgent |-> 0,        \* requests written and not yet read by the agent
     toServer |-> <<>>,    \* responses written and not yet read by the server
     tick |-> FALSE,       \* a tick is waiting in timer.C
     ctxDone |-> FALSE,    \* the request's context is done
     agent |-> "dial",     \* the agent's reporter: dial, read, write, gone
     \* history
     sent |-> 0,           \* requests the server wrote
     got |-> 0,            \* responses the server read
     agentGot |-> 0,       \* requests the agent read
     answered |-> 0,       \* responses the agent wrote
     ticked |-> FALSE,     \* a tick was consumed since the latest response
     handled |-> "none",   \* the latest response: none, skipped, inserted,
                           \* failed (the insert returned an error)
     inserted |-> NoReport,    \* the latest report inserted
     afterFailure |-> 0]   \* requests written after an insert failed

reportUnchanged ==
    UNCHANGED <<now, latestBuild, agentRow, hs, fenced, in, out, cache, st, dc,
                pty, bus, wg>>

\* The handler returns: the deferred conn.Close(StatusAbnormalClosure, "")
\* closes the websocket if it is still open.
ReportReturn(r, code) ==
    [r EXCEPT !.pc = "returned",
              !.code = IF r.conn = "none" THEN code ELSE r.code,
              !.conn = IF @ = "open" THEN "closed" ELSE @,
              !.closeStatus = IF r.conn = "open" THEN "StatusAbnormalClosure"
                              ELSE @]

\* workspaceAgentReportStats: the three lookups before the accept.
ReportLookup ==
    /\ rep.pc = "lookup"
    /\ \E ok \in BOOLEAN :
         rep' = IF ok THEN [rep EXCEPT !.pc = "accept"]
                ELSE ReportReturn(rep, 400)
    /\ reportUnchanged

\* websocket.Accept.
ReportAccept ==
    /\ rep.pc = "accept"
    /\ \E ok \in BOOLEAN :
         rep' = IF ok THEN [rep EXCEPT !.pc = "write", !.conn = "open"]
                ELSE ReportReturn(rep, 400)
    /\ reportUnchanged

\* wsjson.Write(ctx, conn, codersdk.AgentStatsReportRequest{}).
ReportWrite ==
    /\ rep.pc = "write"
    /\ rep.sent < MaxReports
    /\ \E ok \in BOOLEAN :
         rep' = IF ok
                THEN [rep EXCEPT !.pc = "read",
                                 !.toAgent = @ + 1,
                                 !.sent = @ + 1,
                                 !.ticked = FALSE,
                                 !.afterFailure =
                                     IF rep.handled = "failed" THEN @ + 1
                                     ELSE @]
                ELSE ReportReturn(rep, 400)
    /\ reportUnchanged

ReportReadDoesNotWait ==
    /\ rep.pc = "read"
    /\ rep' = [rep EXCEPT !.pc = "insert"]
    /\ reportUnchanged

\* wsjson.Read(ctx, conn, &rep): the next response, or an error.
ReportRead ==
    /\ rep.pc = "read"
    /\ \/ /\ rep.toServer # <<>>
          /\ rep' = [rep EXCEPT !.pc = "insert",
                                !.report = Head(rep.toServer),
                                !.toServer = Tail(@),
                                !.got = @ + 1,
                                !.handled = "none"]
       \/ rep' = ReportReturn(rep, 400)
    /\ reportUnchanged

\* json.Marshal(rep), then InsertAgentStat when the report has entries.
ReportInsert ==
    /\ rep.pc = "insert"
    /\ IF Cardinality(Keys(rep.report.ProtocolStats)) > 0
       THEN \E ok \in BOOLEAN :
              rep' = IF ok
                     THEN [rep EXCEPT !.pc = "select",
                                      !.handled = "inserted",
                                      !.inserted = rep.report]
                     ELSE ReportReturn([rep EXCEPT !.handled = "failed"], 400)
       ELSE rep' = [rep EXCEPT !.pc = "select", !.handled = "skipped"]
    /\ reportUnchanged

\* select: case <-timer.C, continue.
ReportSelectTick ==
    /\ rep.pc = "select"
    /\ rep.tick
    /\ rep' = [rep EXCEPT !.pc = "write", !.tick = FALSE, !.ticked = TRUE]
    /\ reportUnchanged

\* select: case <-ctx.Done(), conn.Close(StatusNormalClosure, ""), return.
ReportSelectCtx ==
    /\ rep.pc = "select"
    /\ rep.ctxDone
    /\ rep' = ReportReturn([rep EXCEPT !.conn = "closed",
                                       !.closeStatus = "StatusNormalClosure"],
                           0)
    /\ reportUnchanged

\* The ticker delivers a tick; timer.C holds at most one.
ReportTick ==
    /\ rep.pc \in {"write", "read", "insert", "select"}
    /\ ~rep.tick
    /\ rep' = [rep EXCEPT !.tick = TRUE]
    /\ reportUnchanged

\* The request's context ends.
ReportCancel ==
    /\ rep.pc # "returned"
    /\ ~rep.ctxDone
    /\ rep' = [rep EXCEPT !.ctxDone = TRUE]
    /\ reportUnchanged

\* AgentReportStats: websocket.Dial returns, with the connection once the
\* server has accepted, with an error otherwise.
AgentDial ==
    /\ rep.agent = "dial"
    /\ \/ /\ rep.conn = "open"
          /\ rep' = [rep EXCEPT !.agent = "read"]
       \/ rep' = [rep EXCEPT !.agent = "gone"]
    /\ reportUnchanged

\* AgentReportStats: wsjson.Read(ctx, conn, &req).
AgentRead ==
    /\ rep.agent = "read"
    /\ \/ /\ rep.toAgent > 0
          /\ rep' = [rep EXCEPT !.agent = "write",
                                !.toAgent = @ - 1,
                                !.agentGot = @ + 1]
       \/ rep' = [rep EXCEPT !.agent = "gone"]
    /\ reportUnchanged

\* AgentReportStats: s := stats(), then wsjson.Write(ctx, conn, resp).
AgentWrite ==
    /\ rep.agent = "write"
    /\ \E s \in ReportedStats, ok \in BOOLEAN :
         rep' = IF ok /\ rep.conn = "open"
                THEN [rep EXCEPT !.agent = "read",
                                 !.toServer =
                                     Append(@, AgentStatsReportResponse(s)),
                                 !.answered = @ + 1]
                ELSE [rep EXCEPT !.agent = "gone"]
    /\ reportUnchanged

InitReport ==
    /\ now = Epoch + 1
    /\ wg = <<>>
    /\ latestBuild = AgentBuild
    /\ agentRow = [FirstConnectedAt |-> Null, LastConnectedAt |-> Null,
                   DisconnectedAt |-> Null]
    /\ hs = [h \in Handlers |-> IdleHandler]
    /\ fenced = FALSE
    /\ in = <<>>
    /\ out = NoOut
    /\ cache = <<>>
    /\ st = <<>>
    /\ rep = NewReport
    /\ dc = <<>>
    /\ pty = <<>>
    /\ bus = <<>>

NextReport ==
    \/ ReportLookup
    \/ ReportAccept
    \/ ReportWrite
    \/ ReportRead
    \/ ReportInsert
    \/ ReportSelectTick
    \/ ReportSelectCtx
    \/ ReportTick
    \/ ReportCancel
    \/ AgentDial
    \/ AgentRead
    \/ AgentWrite

SpecReport == InitReport /\ [][NextReport]_vars

----------------------------------------------------------------------------
(* dialWorkspaceAgent and WebRTCConn.DialContext (SpecDial) *)

\* Reads, and writes, on a connection DialContext returned.
MaxIO == 2

\* The state at the entry of dialWorkspaceAgent: the pipe is made, the context
\* is live, and the relay goroutine runs ProxyListen. negotiations, dials,
\* first, reads and writes are history.
NewDial ==
    [pc           |-> "negotiate",
     err          |-> "none",
     ctxDone      |-> FALSE,
     relay        |-> "listen",
     client       |-> "open",
     server       |-> "open",
     peer         |-> "none",
     watch        |-> "none",
     negotiations |-> 0,
     dials        |-> 0,
     ch           |-> "idle",
     channel      |-> "none",
     first        |-> "none",
     reads        |-> 0,
     writes       |-> 0]

dialUnchanged ==
    UNCHANGED <<now, latestBuild, agentRow, hs, fenced, in, out, cache, st,
                rep, pty, bus, wg>>

NegotiateKeepsContext ==
    /\ dc.pc = "negotiate"
    /\ \E ok \in BOOLEAN :
         dc' = IF ok /\ dc.client = "open"
               THEN [dc EXCEPT !.pc = "dial",
                               !.negotiations = @ + 1]
               ELSE [dc EXCEPT !.pc = "failed",
                               !.err = "negotiate",
                               !.negotiations = @ + 1]
    /\ dialUnchanged

\* peerClient.NegotiateConnection(ctx): a failure cancels the context and is
\* returned.
Negotiate ==
    /\ dc.pc = "negotiate"
    /\ \E ok \in BOOLEAN :
         dc' = IF ok /\ dc.client = "open"
               THEN [dc EXCEPT !.pc = "dial",
                               !.negotiations = @ + 1]
               ELSE [dc EXCEPT !.pc = "failed",
                               !.err = "negotiate",
                               !.negotiations = @ + 1,
                               !.ctxDone = TRUE]
    /\ dialUnchanged

\* peerbroker.Dial(stream, ...): a failure cancels the context and is
\* returned; on success the goroutine waiting for the peer to close starts
\* and the connection is returned.
PeerDial ==
    /\ dc.pc = "dial"
    /\ \E ok \in BOOLEAN :
         dc' = IF ok /\ dc.client = "open"
               THEN [dc EXCEPT !.pc = "returned",
                               !.dials = @ + 1,
                               !.peer = "open",
                               !.watch = "waiting"]
               ELSE [dc EXCEPT !.pc = "failed",
                               !.err = "dial",
                               !.dials = @ + 1,
                               !.ctxDone = TRUE]
    /\ dialUnchanged

\* The peer connection closes (its owner closes it, or the network drops it);
\* its channels close with it.
PeerClosed ==
    /\ dc.peer = "open"
    /\ dc' = [dc EXCEPT !.peer = "closed",
                        !.channel = IF @ = "open" THEN "closed" ELSE @]
    /\ dialUnchanged

\* go func() { <-peerConn.Closed(); cancelFunc() }()
WatchClosed ==
    /\ dc.watch = "waiting"
    /\ dc.peer = "closed"
    /\ dc' = [dc EXCEPT !.watch = "done", !.ctxDone = TRUE]
    /\ dialUnchanged

\* ProxyListen returns: its context is cancelled, or the relay itself failed
\* (bus subscription or session).
ProxyListen ==
    /\ dc.relay = "listen"
    /\ \E failed \in BOOLEAN : dc.ctxDone \/ failed
    /\ dc' = [dc EXCEPT !.relay = "closing"]
    /\ dialUnchanged

\* The relay goroutine after ProxyListen: client.Close(), server.Close().
RelayClose ==
    /\ dc.relay = "closing"
    /\ dc' = [dc EXCEPT !.relay = "done",
                        !.client = "closed",
                        !.server = "closed"]
    /\ dialUnchanged

\* DialContext, c.CreateChannel: a failure is returned, no channel exists.
CreateChannel ==
    /\ dc.pc = "returned"
    /\ dc.ch = "idle"
    /\ \E ok \in BOOLEAN :
         dc' = IF ok /\ dc.peer = "open"
               THEN [dc EXCEPT !.ch = "decode", !.channel = "open"]
               ELSE [dc EXCEPT !.ch = "error"]
    /\ dialUnchanged

DecodeIgnoresRemoteError ==
    /\ dc.ch = "decode"
    /\ \E first \in {"ok", "refused", "garbage"} :
         /\ dc.channel = "closed" => first = "garbage"
         /\ dc' = IF first = "garbage"
                  THEN [dc EXCEPT !.ch = "error", !.first = first]
                  ELSE [dc EXCEPT !.ch = "conn", !.first = first]
    /\ dialUnchanged

\* DialContext, dec.Decode(&res) of the first message: an undecodable message
\* (or a channel closed before it came) is returned as an error; a message
\* with an error closes the channel and is returned as an error; a message
\* with an empty error returns channel.NetConn().
Decode ==
    /\ dc.ch = "decode"
    /\ \E first \in {"ok", "refused", "garbage"} :
         /\ dc.channel = "closed" => first = "garbage"
         /\ dc' = CASE first = "garbage" ->
                         [dc EXCEPT !.ch = "error", !.first = first]
                    [] first = "refused" ->
                         [dc EXCEPT !.ch = "error", !.first = first,
                                    !.channel = "closed"]
                    [] OTHER ->
                         [dc EXCEPT !.ch = "conn", !.first = first]
    /\ dialUnchanged

\* A read or a write on the connection DialContext returned.
ChannelIO ==
    /\ dc.ch = "conn"
    /\ dc.channel = "open"
    /\ \E op \in {"read", "write"} :
         dc' = IF op = "read"
               THEN [dc EXCEPT !.reads = Min(@ + 1, MaxIO)]
               ELSE [dc EXCEPT !.writes = Min(@ + 1, MaxIO)]
    /\ dialUnchanged

InitDial ==
    /\ now = Epoch + 1
    /\ wg = <<>>
    /\ latestBuild = AgentBuild
    /\ agentRow = [FirstConnectedAt |-> Null, LastConnectedAt |-> Null,
                   DisconnectedAt |-> Null]
    /\ hs = [h \in Handlers |-> IdleHandler]
    /\ fenced = FALSE
    /\ in = <<>>
    /\ out = NoOut
    /\ cache = <<>>
    /\ st = <<>>
    /\ rep = <<>>
    /\ dc = NewDial
    /\ pty = <<>>
    /\ bus = <<>>

NextDial ==
    \/ Negotiate
    \/ PeerDial
    \/ PeerClosed
    \/ WatchClosed
    \/ ProxyListen
    \/ RelayClose
    \/ CreateChannel
    \/ Decode
    \/ ChannelIO

SpecDial == InitDial /\ [][NextDial]_vars

\* Each goroutine that can take a step eventually takes it; ProxyListen is
\* only required to return once its context is cancelled.
SpecDialFair ==
    /\ SpecDial
    /\ WF_vars(WatchClosed)
    /\ WF_vars(ProxyListen /\ dc.ctxDone)
    /\ WF_vars(RelayClose)

----------------------------------------------------------------------------
(* The terminal handler, wsNetConn and WebsocketCloseSprintf (SpecPTY) *)

websocketCloseMaxLen == 123

\* strings.ToValidUTF8(s, ""): the bytes of s that are not part of a valid
\* encoding are removed. s is a sequence of bytes; the encodings of one and
\* of two bytes are decoded (the inputs hold no longer ones).
RECURSIVE ToValidUTF8(_)
ToValidUTF8(s) ==
    IF s = <<>> THEN <<>>
    ELSE IF s[1] < 128 THEN <<s[1]>> \o ToValidUTF8(Tail(s))
    ELSE IF /\ s[1] \in 194..223
            /\ Len(s) >= 2
            /\ s[2] \in 128..191
         THEN <<s[1], s[2]>> \o ToValidUTF8(Tail(Tail(s)))
    ELSE ToValidUTF8(Tail(s))

\* WebsocketCloseSprintf on the formatted message msg, a sequence of bytes.
\* msg[123] is the byte at offset 123, the 124th; string(byte) is the UTF-8
\* encoding of the code point of that value.
WebsocketCloseSprintf(msg) ==
    IF Len(msg) > websocketCloseMaxLen
    THEN LET b == msg[websocketCloseMaxLen + 1]
         IN  ToValidUTF8(IF b < 128 THEN <<b>>
                         ELSE <<192 + (b \div 64), 128 + (b % 64)>>)
    ELSE msg

\* Formatted messages: of 0, 1 and 122..125 bytes; all "a"; ending in "b";
\* with a two-byte character (195 169) ending at the last byte.
Messages ==
    UNION {{[i \in 1..n |-> 97],
            [i \in 1..n |-> IF i = n THEN 98 ELSE 97],
            [i \in 1..n |-> IF i = n - 1 /\ n > 1 THEN 195
                            ELSE IF i = n /\ n > 1 THEN 169 ELSE 97]} :
           n \in {0, 1} \cup (websocketCloseMaxLen - 1)..(websocketCloseMaxLen + 2)}

\* A query parameter read with strconv.Atoi: absent, not an integer, or an
\* integer.
Params ==
    {[kind |-> "absent", v |-> 0], [kind |-> "bad", v |-> 0]}
    \cup {[kind |-> "int", v |-> n] : n \in {-1, 24, 80, 65535, 65536}}

\* The handler after the status gate has passed. last holds, for each method
\* of wsNetConn, its latest call: the error of the wrapped method and the
\* state before and after; formatted is the message given to
\* WebsocketCloseSprintf.
NewPTY ==
    [pc          |-> "parse",
     code        |-> 0,
     validation  |-> "none",
     heightParam |-> [kind |-> "absent", v |-> 0],
     widthParam  |-> [kind |-> "absent", v |-> 0],
     height      |-> 0,
     width       |-> 0,
     ptHeight    |-> 0,
     ptWidth     |-> 0,
     ws          |-> "none",
     cancelled   |-> FALSE,
     closeStatus |-> "none",
     formatted   |-> <<>>,
     reason      |-> <<>>,
     released    |-> FALSE,
     pt          |-> "none",
     down        |-> "none",
     typed       |-> 0,
     printed     |-> 0,
     userClosed  |-> FALSE,
     agentClosed |-> FALSE,
     last        |-> [op \in {"read", "write", "close"} |->
                        [called |-> FALSE, err |-> FALSE,
                         cancelledBefore |-> FALSE, cancelledAfter |-> FALSE,
                         wsBefore |-> "none", wsAfter |-> "none"]]]

ptyUnchanged ==
    UNCHANGED <<now, latestBuild, agentRow, hs, fenced, in, out, cache, st,
                rep, dc, bus, wg>>

wsNetConnCancelsOnlyOnSuccess(p, op, err) ==
    LET q == CASE op = "close" ->
                    [p EXCEPT !.ws = "closed", !.cancelled = @ \/ ~err]
               [] err -> [p EXCEPT !.cancelled = TRUE]
               [] OTHER -> p
    IN  [q EXCEPT !.last[op] =
            [called |-> TRUE, err |-> err,
             cancelledBefore |-> p.cancelled, cancelledAfter |-> q.cancelled,
             wsBefore |-> p.ws, wsAfter |-> q.ws]]

\* wsNetConn.Read, Write and Close, with err the error of the wrapped
\* connection's method: Read and Write cancel when err is set; Close closes
\* the wrapped connection and cancels in its defer.
wsNetConn(p, op, err) ==
    LET q == CASE op = "close" ->
                    [p EXCEPT !.ws = "closed", !.cancelled = TRUE]
               [] err -> [p EXCEPT !.cancelled = TRUE]
               [] OTHER -> p
    IN  [q EXCEPT !.last[op] =
            [called |-> TRUE, err |-> err,
             cancelledBefore |-> p.cancelled, cancelledAfter |-> q.cancelled,
             wsBefore |-> p.ws, wsAfter |-> q.ws]]

\* The return of the handler once the transport is wrapped: the deferred
\* ptNetConn.Close() and release() where they were registered, then
\* wsNetConn.Close(), which fails when the transport is closed already.
ptyReturn(p) ==
    LET q == wsNetConn(p, "close", p.ws # "open" \/ p.userClosed)
    IN  [q EXCEPT !.pc = "returned",
                  !.pt = IF @ = "open" THEN "closed" ELSE @,
                  !.released = (p.pc \in {"open", "copy"})]

\* uuid.Parse of reconnect, strconv.Atoi of height and width.
PTYParse ==
    /\ pty.pc = "parse"
    /\ \E valid \in BOOLEAN, h \in Params, w \in Params :
         pty' = IF ~valid
                THEN [pty EXCEPT !.pc = "returned",
                                 !.code = 400,
                                 !.validation = "reconnect"]
                ELSE [pty EXCEPT !.pc = "accept",
                                 !.heightParam = h,
                                 !.widthParam = w,
                                 !.height = IF h.kind = "int" THEN h.v ELSE 80,
                                 !.width = IF w.kind = "int" THEN w.v ELSE 80]
    /\ ptyUnchanged

\* websocket.Accept and websocketNetConn.
PTYAccept ==
    /\ pty.pc = "accept"
    /\ \E ok \in BOOLEAN :
         pty' = IF ok
                THEN [pty EXCEPT !.pc = "acquire", !.ws = "open"]
                ELSE [pty EXCEPT !.pc = "returned", !.code = 400]
    /\ ptyUnchanged

\* workspaceAgentCache.Acquire: a failure closes the transport with
\* StatusInternalError and the formatted error, and returns.
PTYAcquire ==
    /\ pty.pc = "acquire"
    /\ \/ pty' = [pty EXCEPT !.pc = "open"]
       \/ \E msg \in Messages :
            pty' = ptyReturn([pty EXCEPT
                                !.ws = "closed",
                                !.closeStatus = "StatusInternalError",
                                !.formatted = msg,
                                !.reason = WebsocketCloseSprintf(msg)])
    /\ ptyUnchanged

\* agentConn.ReconnectingPTY(reconnect.String(), uint16(height),
\* uint16(width), command), then the start of the copy goroutine.
PTYOpen ==
    /\ pty.pc = "open"
    /\ \/ pty' = [pty EXCEPT !.pc = "copy",
                             !.pt = "open",
                             !.ptHeight = pty.height % 65536,
                             !.ptWidth = pty.width % 65536,
                             !.down = "running"]
       \/ \E msg \in Messages :
            pty' = ptyReturn([pty EXCEPT
                                !.ws = "closed",
                                !.closeStatus = "StatusInternalError",
                                !.formatted = msg,
                                !.reason = WebsocketCloseSprintf(msg)])
    /\ ptyUnchanged

\* io.Copy(ptNetConn, wsNetConn), one round: a read of the transport, which
\* waits for input, for the end of the transport or for the cancellation of
\* its context, then a write to the stream. An error ends the copy, and the
\* handler returns.
CopyUp ==
    /\ pty.pc = "copy"
    /\ LET failed == pty.userClosed \/ pty.cancelled \/ pty.ws # "open"
       IN  /\ failed \/ pty.typed > 0
           /\ pty' = IF failed
                     THEN ptyReturn(wsNetConn(pty, "read", TRUE))
                     ELSE LET q == [wsNetConn(pty, "read", FALSE)
                                      EXCEPT !.typed = 0]
                          IN  IF pty.pt = "open" /\ ~pty.agentClosed
                              THEN q
                              ELSE ptyReturn(q)
    /\ ptyUnchanged

\* go io.Copy(wsNetConn, ptNetConn), one round: a read of the stream, which
\* waits for output or for the end of the stream, then a write to the
\* transport. An error ends the copy.
CopyDown ==
    /\ pty.down = "running"
    /\ LET failed == pty.pt # "open" \/ (pty.agentClosed /\ pty.printed = 0)
       IN  /\ failed \/ pty.printed > 0
           /\ pty' = IF failed
                     THEN [pty EXCEPT !.down = "ended"]
                     ELSE LET q == [pty EXCEPT !.printed = 0]
                          IN  IF /\ pty.ws = "open"
                                 /\ ~pty.userClosed
                                 /\ ~pty.cancelled
                              THEN wsNetConn(q, "write", FALSE)
                              ELSE [wsNetConn(q, "write", TRUE)
                                      EXCEPT !.down = "ended"]
    /\ ptyUnchanged

\* The user sends input, or closes the transport.
User ==
    /\ pty.ws = "open"
    /\ ~pty.userClosed
    /\ \/ pty.typed = 0 /\ pty' = [pty EXCEPT !.typed = 1]
       \/ pty' = [pty EXCEPT !.userClosed = TRUE, !.typed = 0]
    /\ ptyUnchanged

\* The agent sends output, or closes the stream.
Agent ==
    /\ pty.pt = "open"
    /\ ~pty.agentClosed
    /\ \/ pty.printed = 0 /\ pty' = [pty EXCEPT !.printed = 1]
       \/ pty' = [pty EXCEPT !.agentClosed = TRUE]
    /\ ptyUnchanged

InitPTY ==
    /\ now = Epoch + 1
    /\ wg = <<>>
    /\ latestBuild = AgentBuild
    /\ agentRow = [FirstConnectedAt |-> Null, LastConnectedAt |-> Null,
                   DisconnectedAt |-> Null]
    /\ hs = [h \in Handlers |-> IdleHandler]
    /\ fenced = FALSE
    /\ in = <<>>
    /\ out = NoOut
    /\ cache = <<>>
    /\ st = <<>>
    /\ rep = <<>>
    /\ dc = <<>>
    /\ pty = NewPTY
    /\ bus = <<>>

NextPTY ==
    \/ PTYParse
    \/ PTYAccept
    \/ PTYAcquire
    \/ PTYOpen
    \/ CopyUp
    \/ CopyDown
    \/ User
    \/ Agent

SpecPTY == InitPTY /\ [][NextPTY]_vars

----------------------------------------------------------------------------
(* Node updates over the bus (SpecBus) *)

\* The length of an agent ID as text (a UUID has one fixed length), and the
\* number of messages published.
IdLen == 2
MaxMsgs == 2

\* workspaceAgent.ID.MarshalText() of agent n: IDs differ in their last byte.
AgentID(n) == [i \in 1..IdLen |-> IF i = IdLen THEN n ELSE 1]

\* postWorkspaceAgentNode for agent n: the marshalled node is appended to the
\* ID and published. to and payload are history.
postWorkspaceAgentNode ==
    /\ Len(bus.msgs) < MaxMsgs
    /\ \E n \in {1, 2}, payload \in {<<9>>, <<1, 1>>, <<1, 2, 9>>} :
         bus' = [bus EXCEPT !.msgs =
                    Append(@, [data    |-> AgentID(n) \o payload,
                               to      |-> n,
                               payload |-> payload])]
    /\ UNCHANGED <<now, latestBuild, agentRow, hs, fenced, in, out, cache, st,
                   rep, dc, pty, wg>>

\* Another publisher on the topic: any bytes.
PublishOther ==
    /\ Len(bus.msgs) < MaxMsgs
    /\ \E data \in {<<>>, <<1>>, <<2, 1, 9>>, AgentID(2)} :
         bus' = [bus EXCEPT !.msgs =
                    Append(@, [data    |-> data,
                               to      |-> 0,
                               payload |-> <<>>])]
    /\ UNCHANGED <<now, latestBuild, agentRow, hs, fenced, in, out, cache, st,
                   rep, dc, pty, wg>>

workspaceAgentNodeForwardsAll(s) ==
    LET sub == bus.subs[s]
        i   == sub.pos + 1
        m   == bus.msgs[i].data
        id  == AgentID(sub.agent)
    IN  /\ sub.pos < Len(bus.msgs)
        /\ bus' = [bus EXCEPT
                     !.subs[s].pos = i,
                     !.subs[s].sock =
                        IF Len(m) < Len(id)
                        THEN @
                        ELSE Append(@, [bytes |-> SubSeq(m, Len(id) + 1,
                                                         Len(m)),
                                        of    |-> i])]
        /\ UNCHANGED <<now, latestBuild, agentRow, hs, fenced, in, out,
                       cache, st, rep, dc, pty, wg>>

\* The subscriber of workspaceAgentNode on its next message: it returns on a
\* message shorter than the ID and on one that does not begin with the ID,
\* and writes the rest of any other to its socket.
workspaceAgentNode(s) ==
    LET sub == bus.subs[s]
        i   == sub.pos + 1
        m   == bus.msgs[i].data
        id  == AgentID(sub.agent)
    IN  /\ sub.pos < Len(bus.msgs)
        /\ bus' = [bus EXCEPT
                     !.subs[s].pos = i,
                     !.subs[s].sock =
                        IF Len(m) < Len(id)
                        THEN @
                        ELSE IF SubSeq(m, 1, Len(id)) # id
                        THEN @
                        ELSE Append(@, [bytes |-> SubSeq(m, Len(id) + 1,
                                                         Len(m)),
                                        of    |-> i])]
        /\ UNCHANGED <<now, latestBuild, agentRow, hs, fenced, in, out,
                       cache, st, rep, dc, pty, wg>>

\* Two subscribers of agent 1 and one of agent 2, subscribed before any
\* message is published.
InitBus ==
    /\ now = Epoch + 1
    /\ wg = <<>>
    /\ latestBuild = AgentBuild
    /\ agentRow = [FirstConnectedAt |-> Null, LastConnectedAt |-> Null,
                   DisconnectedAt |-> Null]
    /\ hs = [h \in Handlers |-> IdleHandler]
    /\ fenced = FALSE
    /\ in = <<>>
    /\ out = NoOut
    /\ cache = <<>>
    /\ st = <<>>
    /\ rep = <<>>
    /\ dc = <<>>
    /\ pty = <<>>
    /\ bus = [msgs |-> <<>>,
              subs |-> [s \in {"s1", "s2", "s3"} |->
                          [agent |-> IF s = "s3" THEN 2 ELSE 1,
                           pos   |-> 0,
                           sock  |-> <<>>]]]

NextBus ==
    \/ postWorkspaceAgentNode
    \/ PublishOther
    \/ \E s \in {"s1", "s2", "s3"} : workspaceAgentNode(s)

SpecBus == InitBus /\ [][NextBus]_vars

----------------------------------------------------------------------------
(* An agent's listener and its stats report loop together (SpecPersist) *)

\* One listener handler and the report handler of the same agent, each
\* with its own row-store calls.
NextPersist ==
    \/ ListenStart("h1")
    \/ ListenEnsure("h1")
    \/ ListenAccept("h1")
    \/ ListenTick("h1")
    \/ ListenSessionClosed("h1")
    \/ ListenTeardown("h1")
    \/ Advance
    \/ NextReport

SpecPersist == InitReport /\ [][NextPersist]_vars

-----------------------------------------------------------------------------
(* SpecWait: the handlers that serve a websocket and the API's wait group *)

\* workspaceAgentDial, workspaceAgentListen, workspaceAgentTurn,
\* workspaceAgentPTY, workspaceAgentNode, workspaceAgentReportStats.
websocketHandlers == {"dial", "listen", "turn", "pty", "node", "report"}

\* A request reaches the handler: api.websocketWaitMutex.Lock().
HandlerLock(k) ==
    /\ wg.pc[k] = "idle"
    /\ wg.websocketWaitMutex = "free"
    /\ wg' = [wg EXCEPT !.pc[k] = "locked", !.websocketWaitMutex = k]
    /\ UNCHANGED <<now, latestBuild, agentRow, hs, fenced, in, out, cache, st,
                   rep, dc, pty, bus>>

\* api.websocketWaitGroup.Add(1); api.websocketWaitMutex.Unlock();
\* defer api.websocketWaitGroup.Done(). The handler's body runs from here.
HandlerAdd(k) ==
    /\ wg.pc[k] = "locked"
    /\ wg' = [wg EXCEPT !.pc[k] = "running",
                        !.websocketWaitMutex = "free",
                        !.websocketWaitGroup = @ + 1]
    /\ UNCHANGED <<now, latestBuild, agentRow, hs, fenced, in, out, cache, st,
                   rep, dc, pty, bus>>

HandlerReturnDoneOnlyWhenServed(k) ==
    /\ wg.pc[k] = "running"
    /\ \E path \in {"rejected", "accept failed", "served"} :
         wg' = [wg EXCEPT !.pc[k] = "idle",
                          !.websocketWaitGroup =
                              IF path = "served" THEN @ - 1 ELSE @,
                          !.paths = @ \cup {path}]
    /\ UNCHANGED <<now, latestBuild, agentRow, hs, fenced, in, out, cache, st,
                   rep, dc, pty, bus>>

\* The handler returns: before the accept (the request is rejected), when
\* the accept failed, or after the transport was served. The deferred Done
\* runs on each of them.
HandlerReturn(k) ==
    /\ wg.pc[k] = "running"
    /\ \E path \in {"rejected", "accept failed", "served"} :
         wg' = [wg EXCEPT !.pc[k] = "idle",
                          !.websocketWaitGroup = @ - 1,
                          !.paths = @ \cup {path}]
    /\ UNCHANGED <<now, latestBuild, agentRow, hs, fenced, in, out, cache, st,
                   rep, dc, pty, bus>>

\* The shutdown's blocking drain, websocketWaitGroup.Wait(), returns: the
\* counter is zero.
APIClose ==
    /\ ~wg.closed
    /\ wg.websocketWaitGroup = 0
    /\ wg' = [wg EXCEPT !.closed = TRUE]
    /\ UNCHANGED <<now, latestBuild, agentRow, hs, fenced, in, out, cache, st,
                   rep, dc, pty, bus>>

InitWait ==
    /\ now = Epoch + 1
    /\ latestBuild = AgentBuild
    /\ agentRow = [FirstConnectedAt |-> Null, LastConnectedAt |-> Null,
                   DisconnectedAt |-> Null]
    /\ hs = [h \in Handlers |-> IdleHandler]
    /\ fenced = FALSE
    /\ in = <<>>
    /\ out = NoOut
    /\ cache = <<>>
    /\ st = <<>>
    /\ rep = <<>>
    /\ dc = <<>>
    /\ pty = <<>>
    /\ bus = <<>>
    /\ wg = [websocketWaitGroup |-> 0,
             websocketWaitMutex |-> "free",  \* free, or the handler holding it
             pc |-> [k \in websocketHandlers |-> "idle"],
             closed |-> FALSE,    \* the shutdown's Wait has returned
             paths |-> {}]        \* history: the return paths taken

NextWait ==
    \/ \E k \in websocketHandlers : HandlerLock(k)
    \/ \E k \in websocketHandlers : HandlerAdd(k)
    \/ \E k \in websocketHandlers : HandlerReturn(k)
    \/ APIClose

SpecWait == InitWait /\ [][NextWait]_vars

----------------------------------------------------------------------------
(* Claims about the derived status (SpecConvert) *)

\* The rules of the liveness derivation, first match wins.
StatusByRules(a, t, timeout) ==
    CASE ~a.FirstConnectedAt.Valid -> WorkspaceAgentConnecting
      [] a.FirstConnectedAt.Valid
           /\ a.DisconnectedAt.Valid
           /\ a.DisconnectedAt.Time > a.LastConnectedAt.Time
           -> WorkspaceAgentDisconnected
      [] a.FirstConnectedAt.Valid
           /\ ~(a.DisconnectedAt.Valid
                /\ a.DisconnectedAt.Time > a.LastConnectedAt.Time)
           /\ Sub(t, a.LastConnectedAt.Time) > timeout
           -> WorkspaceAgentDisconnected
      [] a.FirstConnectedAt.Valid
           /\ ~(a.DisconnectedAt.Valid
                /\ a.DisconnectedAt.Time > a.LastConnectedAt.Time)
           /\ ~(Sub(t, a.LastConnectedAt.Time) > timeout)
           /\ a.LastConnectedAt.Valid
           -> WorkspaceAgentConnected
      [] OTHER -> StatusUnset

\* C1: for every timestamp combination, clock reading and timeout, the
\* status the handler reports is the one the four rules give when they are
\* evaluated in order.
C1_StatusFollowsRules ==
    out.handler = "get" /\ out.code = 200
        => out.status = StatusByRules(in.agent, in.now, in.timeout)

\* C1 witness: a present disconnected_at equal to last_connected_at does not
\* disconnect; the agent is reported connected.
C1_Witness ==
    /\ out.handler = "get" /\ out.code = 200
    /\ in.agent.FirstConnectedAt.Valid
    /\ in.agent.DisconnectedAt.Valid
    /\ in.agent.DisconnectedAt = in.agent.LastConnectedAt
    /\ out.status = WorkspaceAgentConnected

\* C2: the derivation is total: every row, clock reading and timeout gives
\* one of connecting, connected, disconnected, never an unset status.
C2_StatusTotal ==
    out.handler = "get" /\ out.code = 200
        => out.status \in {WorkspaceAgentConnecting, WorkspaceAgentConnected,
                           WorkspaceAgentDisconnected}

\* C8: the dial and terminal handlers accept the transport, relay or open a
\* stream only when the status derived from the row is connected; for
\* connecting and disconnected they answer 412 / 428 and touch nothing.
C8_OnlyConnectedReachesAgent ==
    out.handler \in {"dial", "pty"} /\ out.code # 404 =>
        LET status == StatusByRules(in.agent, in.now, in.timeout) IN
        /\ (out.accepted \/ out.relay \/ out.stream)
              => status = WorkspaceAgentConnected
        /\ status \in {WorkspaceAgentConnecting, WorkspaceAgentDisconnected}
              => /\ out.code = (IF out.handler = "dial" THEN 412 ELSE 428)
                 /\ ~out.accepted /\ ~out.relay /\ ~out.stream

\* C8 witness: the terminal handler turned away a connecting agent.
C8_Witness ==
    /\ out.handler = "pty" /\ out.code = 428
    /\ ~in.agent.FirstConnectedAt.Valid
    /\ ~out.accepted /\ ~out.stream

----------------------------------------------------------------------------
(* Claims about the agent listener (Spec) *)

\* C3: the stored first_connected_at, once set, is never changed and never
\* cleared, whatever the interleaving of the listener handlers.
C3_FirstConnectedAtSetOnce ==
    [][agentRow.FirstConnectedAt.Valid
         => agentRow'.FirstConnectedAt = agentRow.FirstConnectedAt]_vars

\* The first persist of handler h succeeded in this step.
FirstPersistDone(h) == hs[h].pc = "accept" /\ hs'[h].pc = "loop"

\* C4 as stated: after a successful first persist the row has
\* first_connected_at set (now if the handler found it absent, else
\* unchanged), last_connected_at = now and disconnected_at cleared.
C4_AcceptClearsDisconnectedAt ==
    [][\A h \in Handlers : FirstPersistDone(h) =>
         /\ agentRow'.FirstConnectedAt.Valid
         /\ hs[h].row.FirstConnectedAt.Valid
              => agentRow'.FirstConnectedAt = hs[h].row.FirstConnectedAt
         /\ ~hs[h].row.FirstConnectedAt.Valid
              => agentRow'.FirstConnectedAt = NullTime(now)
         /\ agentRow'.LastConnectedAt = NullTime(now)
         /\ agentRow'.DisconnectedAt = Null]_vars

\* C4 amended: after a successful first persist the row has
\* first_connected_at set (now if the row read at request start had none,
\* else that row's value), last_connected_at = now, and disconnected_at as
\* it was in the row read at request start (it is not cleared).
C4_AcceptKeepsDisconnectedAt ==
    [][\A h \in Handlers : FirstPersistDone(h) =>
         /\ agentRow'.FirstConnectedAt.Valid
         /\ hs[h].row.FirstConnectedAt.Valid
              => agentRow'.FirstConnectedAt = hs[h].row.FirstConnectedAt
         /\ ~hs[h].row.FirstConnectedAt.Valid
              => agentRow'.FirstConnectedAt = NullTime(now)
         /\ agentRow'.LastConnectedAt = NullTime(now)
         /\ agentRow'.DisconnectedAt = hs[h].row.DisconnectedAt]_vars

\* C4 witness: a handler is past its first persist and the row still carries
\* the disconnected_at of an earlier session, next to an older
\* first_connected_at and a fresh last_connected_at.
C4_Witness ==
    \E h \in Handlers :
        /\ hs[h].pc = "loop"
        /\ agentRow.DisconnectedAt.Valid
        /\ agentRow.DisconnectedAt = hs[h].row.DisconnectedAt
        /\ agentRow.LastConnectedAt = NullTime(now)
        /\ agentRow.FirstConnectedAt = hs[h].row.FirstConnectedAt
        /\ agentRow.FirstConnectedAt.Time < now

\* C5: a tunnel never survives a heartbeat tick at which its build is not
\* the latest: such a tick always leaves the loop to close the tunnel.
C5_FencedWithinOneTick ==
    [][\A h \in Handlers :
         (ListenTick(h) /\ latestBuild # AgentBuild) => hs'[h].pc = "closing"]_vars

\* C5 witness: a tick found the build superseded and is closing the tunnel
\* with going away.
C5_Witness ==
    \E h \in Handlers :
        /\ hs[h].pc = "closing"
        /\ hs[h].err = "build is outdated"
        /\ hs[h].closeStatus = "goingaway"
        /\ latestBuild # AgentBuild

\* C6: an agent of a non-latest build is refused (403) before the transport
\* is accepted and before any timestamp is written; a listen attempt begun
\* after a fencing teardown is never accepted.
C6_OutdatedBuildRefused ==
    [][\A h \in Handlers :
         /\ (hs[h].pc = "ensure" /\ hs'[h].pc # "ensure"
               /\ latestBuild # AgentBuild)
              => /\ hs'[h].pc = "idle"
                 /\ hs'[h].code = 403
                 /\ ~hs'[h].accepted
                 /\ agentRow' = agentRow
         /\ hs'[h].late => ~hs'[h].accepted /\ hs'[h].pc \in {"idle", "ensure"}]_vars

\* C6 witness: after a fencing teardown a new listen attempt was refused.
C6_Witness ==
    \E h \in Handlers :
        /\ fenced
        /\ hs[h].late
        /\ hs[h].pc = "idle"
        /\ hs[h].code = 403

\* C7: every exit of the listener after the relay was set up goes through
\* the deferred teardown, which attempts exactly one persist with
\* disconnected_at = now; if that persist fails the row and the handler's
\* outcome are left as they were.
C7_TeardownPersistsOnce ==
    [][\A h \in Handlers :
         /\ (hs[h].relay /\ hs[h].pc # "idle" /\ hs'[h].pc = "idle")
              => /\ hs[h].pc = "closing"
                 /\ hs[h].tdAttempts = 0
                 /\ hs'[h].tdAttempts = 1
                 /\ hs'[h].tdOk
                      => agentRow' = ConnectionParams(hs[h].firstConnectedAt,
                                                      hs[h].lastConnectedAt,
                                                      NullTime(now))
                 /\ ~hs'[h].tdOk => agentRow' = agentRow
                 /\ hs'[h].closeStatus = hs[h].closeStatus
                 /\ hs'[h].code = hs[h].code
         /\ (hs'[h].relay /\ hs[h].pc # hs'[h].pc)
              => hs'[h].pc \in {"loop", "closing"}]_vars

\* C7 witness: a handler closed for fencing has returned after one teardown
\* persist that failed, its going-away outcome unchanged.
C7_Witness ==
    \E h \in Handlers :
        /\ hs[h].pc = "idle"
        /\ hs[h].tdAttempts = 1
        /\ ~hs[h].tdOk
        /\ hs[h].closeStatus = "goingaway"

----------------------------------------------------------------------------
(* Claims about gap-filling (SpecFill) *)

MidnightAligned(rows) == \A i \in 1..Len(rows) : rows[i].Date % Day = 0

StrictlyAscending(rows) ==
    \A i \in 1..(Len(rows) - 1) : rows[i].Date < rows[i + 1].Date

\* The count the input gives for a date, 0 if the input has no such row.
InputCount(rows, date) ==
    IF \E i \in 1..Len(rows) : rows[i].Date = date
    THEN (CHOOSE r \in {rows[i] : i \in 1..Len(rows)} : r.Date = date).Daus
    ELSE 0

\* Calendar day n (1 = the first day of the window) at midnight.
DayNo(n) == (n - 1) * Day

HolesExample ==
    <<[Date |-> DayNo(1), Daus |-> 3], [Date |-> DayNo(4), Daus |-> 1],
      [Date |-> DayNo(7), Daus |-> 3]>>

NoGaps(rows) ==
    \A i \in 1..(Len(rows) - 1) :
        /\ rows[i + 1].Date - rows[i].Date <= Day
        /\ rows[i].Date - rows[i + 1].Date <= Day

\* C11: an input whose adjacent dates are at most one day apart is returned
\* unchanged, so is a single row, and an empty input gives an empty result.
C11_FillBoundaries ==
    out.handler = "refresh" =>
        /\ NoGaps(in) => out.rows = in
        /\ Len(in) = 1 => out.rows = in
        /\ in = <<>> => out.rows = <<>>

\* C11 witness: three rows exactly one day apart came back unchanged.
C11_Witness ==
    /\ out.handler = "refresh"
    /\ Len(in) = 3
    /\ in[2].Date = in[1].Date + Day
    /\ in[3].Date = in[2].Date + Day
    /\ out.rows = in

----------------------------------------------------------------------------
(* Claims about the metrics cache (SpecCache, SpecCacheFair) *)

\* C12: a refresh whose delete or whose query failed has returned an error
\* and has left the published snapshot exactly as it was when the refresh
\* began; after a failed delete the query was not issued.
C12_FailedRefreshPublishesNothing ==
    cache.lastErr \in {"delete", "query"} =>
        /\ cache.pc \in {"wait", "select", "exited"}
        /\ cache.getDAUsResponse = cache.before
        /\ cache.lastErr = "delete" => ~cache.queried
        /\ cache.lastErr = "query" => cache.queried

C12_Witness ==
    /\ cache.lastErr = "delete"
    /\ cache.pc = "wait"
    /\ ~cache.before.IsNil
    /\ cache.getDAUsResponse = cache.before

\* The response refresh builds from a query result.
Series(rows) ==
    LET filled == fillEmptyDAUDays(rows) IN
    [i \in 1..Len(filled) |-> DAUEntry(filled[i])]

\* C13: GetDAUs, whatever the loop is doing at the call, returns the empty
\* response before the first successful refresh and afterwards the complete
\* gap-filled series of the latest successful refresh, never a part of a
\* series under construction; and it can always be taken, a refresh in
\* progress or not.
C13_GetDAUsCompleteOrEmpty ==
    /\ ENABLED GetDAUs
    /\ out.handler = "GetDAUs" =>
         out.resp = [Entries |-> IF out.refreshed THEN Series(out.goodRows)
                                 ELSE <<>>]

C13_Witness ==
    /\ out.handler = "GetDAUs"
    /\ out.during = "build"
    /\ out.refreshed
    /\ Len(out.resp.Entries) = 4
    /\ out.resp.Entries = Series(out.goodRows)
    /\ Len(cache.resp) = 1
    /\ cache.daus # out.goodRows

\* The wait a Retrier makes after k failed attempts.
BackoffAfter(k) == IF k = 0 THEN 0 ELSE Min(RetryFloor * 2 ^ k, RetryCeil)

C15_NoRefreshAfterClose ==
    /\ [][cache.doneCh => ~(cache.pc = "wait" /\ cache'.pc = "delete")]_vars
    /\ [](cache.closer = "returned" => cache.pc = "exited")

\* C16: a Close that is waiting for the background loop returns in the end,
\* even if every refresh fails.
C16_CloseReturns == (cache.closer = "waiting") ~> (cache.closer = "returned")

----------------------------------------------------------------------------
(* Claims about the agent's counters (SpecStats) *)

\* C17: as long as no Reset has begun, every protocol's RxBytes is the sum of
\* the byte counts its streams' reads returned and TxBytes the sum its writes
\* returned, transfers that also returned an error included, whatever the
\* interleaving of the streams.
C17_NoLostUpdate ==
    ~st.resetSeen =>
        \A k \in Protocols :
            /\ st.ProtocolStats[k].RxBytes = st.rx[k]
            /\ st.ProtocolStats[k].TxBytes = st.tx[k]

C17_Witness ==
    /\ ~st.resetSeen
    /\ \A c \in Streams : st.conns[c] = [state |-> "open", protocol |-> "ssh"]
    /\ st.rx["ssh"] = 1
    /\ st.tx["ssh"] = 1
    /\ st.ProtocolStats["ssh"].RxBytes = 1
    /\ st.ProtocolStats["ssh"].TxBytes = 1

\* The streams of a protocol that goConn has started and that are not closed.
OpenConns(k) ==
    {c \in Streams : st.conns[c].state = "open" /\ st.conns[c].protocol = k}

\* C18: as long as no Reset has begun, every protocol's NumConns is the
\* number of its streams that are open now: opening adds one, closing takes
\* one away.
C18_NumConnsIsOpenStreams ==
    ~st.resetSeen =>
        \A k \in Protocols :
            st.ProtocolStats[k].NumConns = Cardinality(OpenConns(k))

\* C19: a Copy made after a Reset, with no stream activity since that Reset
\* began, is about to return a map with exactly the keys the live map had
\* before the Reset, each with NumConns, RxBytes and TxBytes zero; the live
\* map has those keys too.
C19_ResetThenCopyIsZero ==
    st.resetSeen /\ st.quiet =>
        /\ Keys(st.ProtocolStats) = st.keysBefore
        /\ st.copy.pc = "range" /\ st.copy.todo = {} =>
             /\ Keys(st.copy.cp) = st.keysBefore
             /\ \A k \in st.keysBefore :
                  /\ st.copy.cp[k].ref = "own"
                  /\ st.copy.cp[k].NumConns = 0
                  /\ st.copy.cp[k].RxBytes = 0
                  /\ st.copy.cp[k].TxBytes = 0

C19_Witness ==
    /\ st.resetSeen
    /\ st.quiet
    /\ st.copy.pc = "range"
    /\ st.copy.todo = {}
    /\ st.keysBefore = Protocols
    /\ Keys(st.copy.cp) = Protocols
    /\ st.rx["ssh"] = 1
    /\ st.tx["tcp"] = 1
    /\ \A c \in Streams : st.conns[c].state = "open"

\* Field i of key k is loaded into the map the Copy in progress builds.
Loaded(k, i) ==
    /\ st.copy.pc # "idle"
    /\ st.copy.cp[k].present
    /\ st.copy.pc = "load" /\ st.copy.cur = k => i < st.copy.field

\* What a reader finds in that field, in state s of the counters.
ValueIn(s, k, i) ==
    IF s.copy.cp[k].ref = "live" THEN s.ProtocolStats[k][Fields[i]]
    ELSE s.copy.cp[k][Fields[i]]

\* C20: every entry of a map Copy has returned points to a ProtocolStats of
\* its own, which no read, write, open or Reset reaches; a value Copy has
\* loaded is not changed by any step taken while the Copy goes on; and while
\* a Copy is in progress an open stream's Read and Write can be taken.
C20_SnapshotIndependent ==
    /\ [](\A k \in Protocols : st.snap[k].present => st.snap[k].ref = "own")
    /\ [](\A c \in Streams :
            st.copy.pc # "idle" /\ st.conns[c].state = "open"
                /\ st.bytes < MaxBytes
            => ENABLED Read(c) /\ ENABLED Write(c))
    /\ [][\A k \in Protocols, i \in 1..Len(Fields) :
            Loaded(k, i) /\ st'.copy.pc # "idle"
            => ValueIn(st', k, i) = ValueIn(st, k, i)]_vars

C20_Witness ==
    /\ st.copied
    /\ st.snap["ssh"].present
    /\ st.copy.pc = "load"
    /\ st.copy.cur = "ssh"
    /\ st.copy.field = 3
    /\ st.copy.cp["ssh"].RxBytes = 1
    /\ st.ProtocolStats["ssh"].RxBytes = 2

----------------------------------------------------------------------------
(* Claims about the stats report loop (SpecReport) *)

\* C21: the server has at most one request outstanding: it reads a response
\* only with one request unanswered, and writes a request only with none; the
\* first request is written right after the accept; every later one after
\* the latest response was read, inserted when it had entries, and a tick was
\* consumed. The agent writes one response per request it read, and none
\* without a request.
C21_RequestsAlternate ==
    /\ rep.sent - rep.got \in {0, 1}
    /\ rep.pc = "read" => rep.sent = rep.got + 1
    /\ rep.pc \in {"insert", "select"} => rep.sent = rep.got /\ rep.sent > 0
    /\ rep.sent = 0 =>
         /\ rep.pc \in {"lookup", "accept", "write", "returned"}
         /\ ~rep.ticked
         /\ rep.handled = "none"
    /\ rep.pc = "write" /\ rep.sent > 0 =>
         /\ rep.sent = rep.got
         /\ rep.ticked
         /\ rep.handled = IF Keys(rep.report.ProtocolStats) # {}
                          THEN "inserted" ELSE "skipped"
    /\ rep.toAgent = rep.sent - rep.agentGot
    /\ Len(rep.toServer) = rep.answered - rep.got
    /\ rep.agentGot - rep.answered \in {0, 1}
    /\ rep.agent = "read" => rep.answered = rep.agentGot
    /\ rep.agent = "write" => rep.answered = rep.agentGot - 1

C21_Witness ==
    /\ rep.pc = "read"
    /\ rep.sent = 3
    /\ rep.got = 2
    /\ rep.answered = 3
    /\ rep.agent = "read"
    /\ rep.handled = "inserted"

\* A report carries protocol activity.
HasActivity(m) ==
    \E k \in Keys(m) :
        m[k].NumConns > 0 \/ m[k].RxBytes > 0 \/ m[k].TxBytes > 0

\* C22: a report that was inserted carries protocol activity: a report
\* without entries, and one whose entries are all zero, is not inserted.
C22_InsertedHasActivity ==
    rep.handled = "inserted" => HasActivity(rep.inserted.ProtocolStats)

----------------------------------------------------------------------------
(* Claims about the agent dial (SpecDial, SpecDialFair) *)

\* C23: when the first message on the channel carries an error, DialContext
\* returns an error and no connection, the channel is closed, and nothing is
\* read from or written to it afterwards; a connection is returned only
\* after a first message with an empty error was decoded.
C23_RemoteErrorFailsDial ==
    /\ dc.first = "refused" =>
         /\ dc.ch = "error"
         /\ dc.channel = "closed"
         /\ dc.reads = 0
         /\ dc.writes = 0
    /\ dc.ch = "conn" => dc.first = "ok"
    /\ dc.reads + dc.writes > 0 => dc.first = "ok"

C23_Witness ==
    /\ dc.first = "refused"
    /\ dc.ch = "error"
    /\ dc.peer = "open"

\* C26: a dial that failed has cancelled the context, after one negotiation
\* and at most one peer dial; once the dial failed or the returned peer
\* closed, the context is cancelled, ProxyListen returns and both pipe ends
\* are closed.
C26_RelayUnwinds ==
    /\ [](dc.pc = "failed" =>
            /\ dc.ctxDone
            /\ dc.peer = "none"
            /\ dc.negotiations = 1
            /\ dc.dials = (IF dc.err = "dial" THEN 1 ELSE 0))
    /\ [](dc.relay = "done" => dc.client = "closed" /\ dc.server = "closed")
    /\ (dc.pc = "failed" \/ dc.peer = "closed")
         ~> (/\ dc.ctxDone
             /\ dc.relay = "done"
             /\ dc.client = "closed"
             /\ dc.server = "closed")

C26_Witness ==
    /\ dc.peer = "closed"
    /\ dc.watch = "done"
    /\ dc.ctxDone
    /\ dc.relay = "done"
    /\ dc.server = "closed"

----------------------------------------------------------------------------
(* Claims about the terminal handler (SpecPTY) *)

\* A step the handler or its copy goroutine can take by itself.
HandlerStep == PTYAcquire \/ PTYOpen \/ CopyUp \/ CopyDown

\* C24: once one of the two copies has ended, the handler gets to its return
\* with the transport and the stream closed without input from the user or
\* the agent: until then one of its own steps is enabled.
C24_EitherCopyEndClosesBoth ==
    pty.down = "ended" \/ (pty.pc = "returned" /\ pty.down # "none") =>
        \/ /\ pty.pc = "returned"
           /\ pty.ws = "closed"
           /\ pty.pt = "closed"
           /\ pty.down = "ended"
        \/ ENABLED HandlerStep

\* C25: a Read or Write of wsNetConn that returned an error has cancelled
\* the context and left the transport as it was; one that returned no error
\* has changed neither; Close has cancelled the context also when the
\* wrapped Close failed; a cancelled context stays cancelled.
C25_CancelOnErrorAndClose ==
    /\ [](\A op \in {"read", "write"} :
            LET l == pty.last[op]
            IN  l.called =>
                  /\ l.wsAfter = l.wsBefore
                  /\ l.cancelledAfter = (l.cancelledBefore \/ l.err))
    /\ [](pty.last["close"].called => pty.last["close"].cancelledAfter)
    /\ [][pty.cancelled => pty'.cancelled]_vars

C25_Witness ==
    /\ pty.last["close"].called
    /\ pty.last["close"].err
    /\ pty.last["write"].called
    /\ pty.last["write"].err
    /\ pty.last["write"].wsBefore = "open"
    /\ ~pty.last["write"].cancelledBefore
    /\ pty.last["read"].called
    /\ pty.last["read"].err
    /\ pty.last["read"].cancelledBefore

IsPrefix(r, m) == Len(r) <= Len(m) /\ r = SubSeq(m, 1, Len(r))

\* The first 123 bytes of a message of valid UTF-8, less a last byte that
\* begins a character of two bytes.
Truncated(m) ==
    LET n == IF m[websocketCloseMaxLen] >= 194
             THEN websocketCloseMaxLen - 1
             ELSE websocketCloseMaxLen
    IN  SubSeq(m, 1, n)

\* C28: the close reason is the formatted message when that has at most 123
\* bytes, and otherwise its first 123 bytes without an incomplete last
\* character; it is a prefix of the message of at most 123 bytes.
C28_ReasonIsTruncatedMessage ==
    pty.closeStatus # "none" =>
        /\ Len(pty.formatted) <= websocketCloseMaxLen =>
             pty.reason = pty.formatted
        /\ Len(pty.formatted) > websocketCloseMaxLen =>
             pty.reason = Truncated(pty.formatted)
        /\ IsPrefix(pty.reason, pty.formatted)
        /\ Len(pty.reason) <= websocketCloseMaxLen

\* C29: an invalid reconnect is answered 400 with a validation of the field
\* before the transport is accepted or a stream opened; the stream is
\* opened with the parsed height and width, 80 for one absent or not an
\* integer.
C29_GeometryPassedUnchanged ==
    /\ pty.validation = "reconnect" =>
         /\ pty.code = 400
         /\ pty.ws = "none"
         /\ pty.pt = "none"
    /\ pty.pt # "none" =>
         /\ pty.ptHeight = IF pty.heightParam.kind = "int"
                           THEN pty.heightParam.v ELSE 80
         /\ pty.ptWidth = IF pty.widthParam.kind = "int"
                          THEN pty.widthParam.v ELSE 80

----------------------------------------------------------------------------
(* Claims about node updates (SpecBus) *)

\* What subscriber s wrote to its socket for message i.
Forwarded(s, i) ==
    {bus.subs[s].sock[k].bytes :
        k \in {j \in 1..Len(bus.subs[s].sock) : bus.subs[s].sock[j].of = i}}

\* C27: a post for an agent is published as its ID followed by the payload;
\* a subscriber has forwarded a message it was given exactly when the
\* message begins with its agent's ID, and then the rest of the message; so
\* a post reaches the subscribers of its agent with the payload and no
\* subscriber of another agent.
C27_ForwardedIffOwnPrefix ==
    /\ \A i \in 1..Len(bus.msgs) :
         bus.msgs[i].to # 0 =>
            bus.msgs[i].data = AgentID(bus.msgs[i].to) \o bus.msgs[i].payload
    /\ \A s \in DOMAIN bus.subs : \A i \in 1..bus.subs[s].pos :
         LET m  == bus.msgs[i]
             id == AgentID(bus.subs[s].agent)
             own == /\ Len(m.data) >= Len(id)
                    /\ SubSeq(m.data, 1, Len(id)) = id
         IN  /\ Forwarded(s, i) =
                  IF own THEN {SubSeq(m.data, Len(id) + 1, Len(m.data))}
                  ELSE {}
             /\ m.to = bus.subs[s].agent => Forwarded(s, i) = {m.payload}
             /\ m.to \notin {0, bus.subs[s].agent} => Forwarded(s, i) = {}

C27_Witness ==
    /\ Len(bus.msgs) = 2
    /\ bus.msgs[1].to = 1
    /\ bus.msgs[1].payload = <<1, 2, 9>>
    /\ bus.msgs[2].to = 0
    /\ Len(bus.msgs[2].data) < IdLen
    /\ \A s \in DOMAIN bus.subs : bus.subs[s].pos = 2
    /\ Len(bus.subs["s1"].sock) = 1
    /\ Len(bus.subs["s2"].sock) = 1
    /\ bus.subs["s3"].sock = <<>>

----------------------------------------------------------------------------
(* Claims about row-store failures (SpecPersist) *)

----------------------------------------------------------------------------
(* Further claims about the listener (Spec) *)

\* C31: a tunnel closed with the going-away status on a tick is one whose
\* latest-build lookup succeeded and gave another build than the agent's: a
\* failed lookup is not closed as going away.
C31_GoingAwayOnlyWhenOutdated ==
    \A h \in Handlers :
        hs[h].closeStatus = "goingaway" => hs[h].err = "build is outdated"

----------------------------------------------------------------------------
(* Further claims about gap-filling (SpecFill) *)

IsInputRow(r) == r.Daus # 0

\* The number of input rows among the first k rows of a result.
RECURSIVE InputRowsUpTo(_, _)
InputRowsUpTo(rows, k) ==
    IF k = 0 THEN 0
    ELSE InputRowsUpTo(rows, k - 1) + (IF IsInputRow(rows[k]) THEN 1 ELSE 0)

\* C32: for every input, sorted or not, aligned or not, with or without
\* repeated dates, and in both copies of the function: the rows of the
\* result that carry a count are the input rows, unchanged and in their
\* order; the first row of the result is the first input row; every other
\* row has count 0 and a date strictly between the date of the input row
\* before it and the date of the input row after it. (A row has a date and
\* a count only, and the query never gives a count of 0.)
C32_FillKeepsInputRows ==
    out.handler \in {"refresh", "daus"} =>
        /\ SelectSeq(out.rows, IsInputRow) = in
        /\ in # <<>> => out.rows[1] = in[1]
        /\ \A k \in 1..Len(out.rows) :
             ~IsInputRow(out.rows[k]) =>
                LET i == InputRowsUpTo(out.rows, k)
                IN  /\ i >= 1
                    /\ i < Len(in)
                    /\ in[i].Date < out.rows[k].Date
                    /\ out.rows[k].Date < in[i + 1].Date

C32_Witness ==
    /\ out.handler = "daus"
    /\ Len(in) = 3
    /\ in[1].Date = 1
    /\ in[2].Date = 6
    /\ in[3].Date = 1
    /\ Len(out.rows) = 5

-----------------------------------------------------------------------------
(* Further claims about the listener's timestamps (Spec, SpecPersist) *)

\* C33: every listener persist writes a present first_connected_at: a step
\* that changes the row, or starts from a row that has it, ends in a row
\* whose status is not connecting, at every timeout.
C33_NeverConnectingAgain ==
    [][(agentRow' # agentRow \/ agentRow.FirstConnectedAt.Valid) =>
         /\ agentRow'.FirstConnectedAt.Valid
         /\ \A d \in Durations :
              convertWorkspaceAgent(agentRow', now', d)
                  # WorkspaceAgentConnecting]_vars

C33_Witness ==
    /\ agentRow.FirstConnectedAt.Valid
    /\ agentRow.DisconnectedAt.Valid
    /\ agentRow.LastConnectedAt.Time > agentRow.DisconnectedAt.Time
    /\ hs["h1"].pc = "loop"
    /\ hs["h2"].pc = "idle"

C35_DisconnectedAtTeardown ==
    [][\A h \in Handlers :
         (/\ hs[h].pc = "closing"
          /\ hs'[h].pc = "idle"
          /\ hs'[h].tdOk
          /\ \A g \in Handlers \ {h} : hs[g].pc = "idle") =>
            \A d \in Durations :
                convertWorkspaceAgent(agentRow', now', d)
                    = WorkspaceAgentDisconnected]_vars

\* C36: a heartbeat step of a handler in its loop never replaces a stored
\* disconnected_at by an absent or an older one.
C36_DisconnectedAtNeverBackwards ==
    [][\A h \in Handlers :
         (/\ hs[h].pc = "loop"
          /\ hs'[h] # hs[h]
          /\ agentRow.DisconnectedAt.Valid) =>
            /\ agentRow'.DisconnectedAt.Valid
            /\ agentRow'.DisconnectedAt.Time
                 >= agentRow.DisconnectedAt.Time]_vars

-----------------------------------------------------------------------------
(* Further claims about the agent dial (SpecDial) *)

\* C38: when DialContext has returned an error after the channel was
\* created, the channel is closed.
C38_FailedDialClosesChannel ==
    (dc.ch = "error" /\ dc.channel # "none") => dc.channel = "closed"

-----------------------------------------------------------------------------
(* Further claims about the metrics cache (SpecCacheFair) *)

\* C39: once the context given to Start is cancelled, the background loop
\* begins at most one more refresh before it exits.
C39_OneMoreRefreshAfterCancel == cache.afterCtx <= 1

-----------------------------------------------------------------------------
(* Claims about a reporting cycle of the counters (SpecCycle) *)

\* C37: when the cycle's Copy and Reset have both returned, the bytes the
\* snapshot reported and the bytes left in the counters for the next report
\* are together all the bytes the streams transferred.
C37_EveryByteReportedOnce ==
    (st.copied /\ st.resetSeen /\ st.reset.pc = "idle") =>
        st.reported
          + st.ProtocolStats["ssh"].RxBytes + st.ProtocolStats["ssh"].TxBytes
          + st.ProtocolStats["tcp"].RxBytes + st.ProtocolStats["tcp"].TxBytes
          = st.bytes

-----------------------------------------------------------------------------
(* Claims about the wait group (SpecWait) *)

\* C40: the wait-group counter is always the number of handlers that have
\* added themselves and not returned; a handler's return, on whichever
\* path, takes exactly one off it; and the shutdown's wait returns only in
\* a state where none of them is running.
C40_WaitGroupCountsHandlers ==
    /\ [](wg.websocketWaitGroup =
             Cardinality({k \in websocketHandlers : wg.pc[k] = "running"}))
    /\ [][\A k \in websocketHandlers :
             (wg.pc[k] = "running" /\ wg'.pc[k] = "idle") =>
                 wg'.websocketWaitGroup = wg.websocketWaitGroup - 1]_vars
    /\ [][(~wg.closed /\ wg'.closed) =>
             \A k \in websocketHandlers : wg.pc[k] # "running"]_vars

C40_Witness ==
    /\ wg.closed
    /\ wg.paths = {"rejected", "accept failed", "served"}
    /\ wg.websocketWaitGroup = 0
    /\ \A k \in websocketHandlers : wg.pc[k] = "idle"

====
